---- MODULE Spec2Model ----
(***************************************************************************)
(* caffeine8 1.1.0: the inhibitor lifecycle controller of caffeine8.cpp    *)
(* (runInhibitorLoop and everything it calls), with the D-Bus services,    *)
(* the descriptor table and signal delivery as its environment.            *)
(*                                                                         *)
(* The controller is single threaded.  Its code is cut at the blocking     *)
(* calls: one action per lease call, per sigaction call and per branch of  *)
(* the polling loop; pc is the position of the controller between them.    *)
(* The only thing that runs between two such steps is the delivery of a    *)
(* signal.                                                                 *)
(*                                                                         *)
(* Functions of the source are operators from a state record to a state    *)
(* record, so that a function body reads in the order of its statements.   *)
(*                                                                         *)
(* Environment: a bus may refuse the connection, a call may fail with an   *)
(* error, and a reply may be missing or malformed.  A granted screen-saver *)
(* cookie is non-zero and a granted descriptor is non-negative.  Memory    *)
(* allocation does not fail (dbus_message_new_method_call returns a        *)
(* message), and the status file can be opened for writing; the branches   *)
(* of the code for these two cases are in the operators but the            *)
(* environment never selects them.                                         *)
(***************************************************************************)
EXTENDS Integers, Sequences, FiniteSets, TLC

\* ---------------------------------------------------------------- bounds
\* cookies the screen-saver service hands out are 1..MaxCookie
MaxCookie == 2
\* descriptors the process can receive are 3..MaxFd
MaxFd == 5

\* forks that can succeed: the pids of the controllers launched are
\* ControllerPid .. ControllerPid + MaxControllers - 1
MaxControllers == 2
\* arguments on a command line
MaxArgs == 2

\* pid of the controller process, the value of getpid()
ControllerPid == 4242
\* descriptors 0, 1, 2 are stdin, stdout, stderr
FdRange == 3..MaxFd
CookieRange == 1..MaxCookie

Signals == {"SIGTERM", "SIGINT", "SIGUSR1", "SIGUSR2"}
\* the order of the four sigaction calls
SigactionOrder == <<"SIGTERM", "SIGINT", "SIGUSR1", "SIGUSR2">>

Leases == {"screen", "idle", "sleep"}

\* err.message of a DBusError: free text of the bus library, possibly
\* with line breaks
ErrTexts == { <<"No reply.", "\n", "Timed out", "\r">> }

\* outcomes of dbus_bus_get
ConnOutcomes == {"ok", "error", "null"}
\* outcomes of ScreenSaver.Inhibit
ScreenOutcomes == {"ok", "error", "nullreply", "badargs"}
\* outcomes of login1.Inhibit
Login1Outcomes == {"ok", "error", "nullreply", "noargs", "notfd"}
\* outcomes of ScreenSaver.UnInhibit
UnInhibitOutcomes == {"ok", "error"}
\* outcomes of dbus_message_new_method_call: TRUE is a message
AllocOutcomes == {TRUE}

NoFile == [exists |-> FALSE]
NoLine == <<>>

\* struct UiStatus as constructed
NoStatus == [hasData |-> FALSE, active |-> FALSE, debug |-> FALSE, pid |-> -1,
             message |-> <<"Awaiting status update...">>]

VARIABLES
    pc,                  \* position of the controller
    acqCaller,           \* who called acquireInhibitors: "initial" or "loop"
    inhibitorHandles,    \* struct InhibitorHandles
    debugLoggingEnabled,
    inhibitorsActive,
    terminationRequested,
    acquireRequested,
    releaseRequested,
    lastQbusError,       \* the status message, a sequence of text pieces
    screen, idle, sleep, \* locals of acquireInhibitors
    wereActive,          \* local of runInhibitorLoop
    handlers,            \* signals whose disposition is handleSignal
    statusFile,          \* content of /tmp/caffeine8.status
    stdout,              \* last line written by logDebug
    heldCookies,         \* cookies the screen-saver service holds inhibited
    openFds,             \* inhibitor descriptors open in the process
    \* history variables
    granted,             \* leases granted in the most recent acquisition cycle
    cycleDone,           \* the most recent acquireInhibitors has returned
    cleanedSince,        \* cleanupInhibitors ran after that cycle
    branch,              \* the transition being (or last) processed
    branchDone,          \* that transition is complete
    pubs,                \* status publications within that transition
    busCalls,            \* lease calls (connect, Inhibit, UnInhibit, close) within it
    unInhibited,         \* cookies for which UnInhibit was issued within it
    closedFds,           \* descriptors closed within it
    doubleRelease,       \* a close of a descriptor that was not open, or an
                         \* UnInhibit of a cookie the service did not hold, was made
    sigArg,              \* argument of the handleSignal call of HandlerSpec
    termDelivered,       \* a SIGTERM or SIGINT has been delivered
    killedBy,            \* the signal whose default action ended the process
    bothPending,         \* acquireRequested and releaseRequested were both 1 when
                         \* the current iteration of the loop tested acquireRequested
    \* the command line, the PID file, the processes and the UI
    pidFile,             \* content of /tmp/caffeine8.pid
    procs,               \* pids of the controller processes that exist
    nextPid,             \* the pid the next successful fork returns
    argv,                \* arguments of the command run last
    cmdSeq,              \* flips with each run of main
    exitCode,            \* what that run of main returned (in the parent)
    sigSent,             \* <<pid, signal>>: kill calls of that run of main
    forkRet,             \* result of fork in that run: "none", "failed", "child"
    uiOpen,              \* showUI is in its event loop
    targetPid,           \* argument of showUI
    currentStatus,       \* UiStatus currentStatus of showUI
    uiMessage,           \* uiMessage of showUI
    uiSent,              \* <<pid, signal>>: kill calls of showUI
    prior                \* the controller that ran before the one of pid
                         \* ControllerPid: its position, inhibitorsActive, lastQbusError

ctlVars == <<pc, acqCaller, terminationRequested, acquireRequested, releaseRequested,
             screen, idle, sleep, wereActive, handlers>>
stVars == <<inhibitorHandles, debugLoggingEnabled, inhibitorsActive, lastQbusError,
            statusFile, stdout, heldCookies, openFds, granted, cleanedSince,
            pubs, busCalls, unInhibited, closedFds, doubleRelease>>
cliVars == <<pidFile, procs, nextPid, argv, cmdSeq, exitCode, sigSent,
             forkRet, uiOpen, targetPid, currentStatus, uiMessage, uiSent, prior>>
histVars == <<cycleDone, branch, branchDone, termDelivered, killedBy, sigArg, cliVars,
              bothPending>>
vars == <<ctlVars, stVars, histVars>>
\* the variables of the controller of pid ControllerPid other than the status file
ctlInner == <<ctlVars, inhibitorHandles, debugLoggingEnabled, inhibitorsActive,
              lastQbusError, stdout, heldCookies, openFds, granted, cleanedSince,
              pubs, busCalls, unInhibited, closedFds, doubleRelease,
              cycleDone, branch, branchDone, termDelivered, killedBy, sigArg,
              bothPending>>
\* the variables of the controller processes other than the status file
ctlOnly == <<ctlInner, prior>>

\* ------------------------------------------------------------ state record
St == [inhibitorHandles |-> inhibitorHandles,
       debugLoggingEnabled |-> debugLoggingEnabled,
       inhibitorsActive |-> inhibitorsActive,
       lastQbusError |-> lastQbusError,
       statusFile |-> statusFile,
       stdout |-> stdout,
       heldCookies |-> heldCookies,
       openFds |-> openFds,
       granted |-> granted,
       cleanedSince |-> cleanedSince,
       pubs |-> pubs,
       busCalls |-> busCalls,
       unInhibited |-> unInhibited,
       closedFds |-> closedFds,
       doubleRelease |-> doubleRelease]

Commit(s) ==
    /\ inhibitorHandles' = s.inhibitorHandles
    /\ debugLoggingEnabled' = s.debugLoggingEnabled
    /\ inhibitorsActive' = s.inhibitorsActive
    /\ lastQbusError' = s.lastQbusError
    /\ statusFile' = s.statusFile
    /\ stdout' = s.stdout
    /\ heldCookies' = s.heldCookies
    /\ openFds' = s.openFds
    /\ granted' = s.granted
    /\ cleanedSince' = s.cleanedSince
    /\ pubs' = s.pubs
    /\ busCalls' = s.busCalls
    /\ unInhibited' = s.unInhibited
    /\ closedFds' = s.closedFds
    /\ doubleRelease' = s.doubleRelease

\* a new transition starts: the per-transition history is reset
BeginBranch(s) ==
    [s EXCEPT !.pubs = 0, !.busCalls = 0, !.unInhibited = {}, !.closedFds = {}]

\* --------------------------------------------------------------- text
\* std::to_string of a small non-negative number
DecStr(n) == <<"0", "1", "2", "3", "4", "5", "6", "7", "8", "9">>[n + 1]

\* sanitizeStatusMessage that replaces '\n' only
sanitizeStatusMessage_OnlyNewline(message) ==
    [i \in DOMAIN message |-> IF message[i] = "\n" THEN " " ELSE message[i]]

\* std::replace of '\n' and of '\r' by ' '
sanitizeStatusMessage(message) ==
    [i \in DOMAIN message |->
        IF message[i] = "\n" THEN " "
        ELSE IF message[i] = "\r" THEN " "
        ELSE message[i]]

MsgActive == <<"Inhibitors active (screen saver, idle, sleep).">>
MsgReleasedByUser == <<"Inhibitors released by user request.">>
MsgAlreadyInactive == <<"Inhibitors already inactive.">>
MsgReleasedExiting == <<"Inhibitors released (process exiting).">>
MsgNone == <<"NONE">>
LogAlreadyActive == <<"Acquire request ignored; inhibitors already active.">>

\* ------------------------------------------------- logging and publishing
\* logDebug that in debug mode also makes the line the status message
logDebug_SetsMessage(s, message) ==
    IF s.debugLoggingEnabled
    THEN [s EXCEPT !.stdout = message, !.lastQbusError = message]
    ELSE s

logDebug(s, message) ==
    IF s.debugLoggingEnabled THEN [s EXCEPT !.stdout = message] ELSE s

\* canOpen: std::ofstream could open the file
updateStatusFileOpen(s, canOpen) ==
    IF ~canOpen
    THEN logDebug(s, <<"Unable to open status file for writing: ", "/tmp/caffeine8.status">>)
    ELSE [s EXCEPT !.statusFile =
                      [exists |-> TRUE,
                       pid |-> ControllerPid,
                       active |-> IF s.inhibitorsActive THEN 1 ELSE 0,
                       debug |-> IF s.debugLoggingEnabled THEN 1 ELSE 0,
                       message |-> sanitizeStatusMessage(s.lastQbusError)],
                   !.pubs = @ + 1]

updateStatusFile(s) == updateStatusFileOpen(s, TRUE)

\* operator<< of an int: its decimal digits
RECURSIVE Decimal(_)
Decimal(n) == IF n < 10 THEN <<DecStr(n)>> ELSE Decimal(n \div 10) \o <<DecStr(n % 10)>>

\* the text the four output statements of updateStatusFile put in the
\* truncated file, for the values f of a publication
StatusFileText(f) ==
    <<"pid=">> \o Decimal(f.pid) \o <<"\n">>
    \o <<"active=", IF f.active = 1 THEN "1" ELSE "0", "\n">>
    \o <<"debug=", IF f.debug = 1 THEN "1" ELSE "0", "\n">>
    \o <<"message=">> \o f.message \o <<"\n">>

setStatusMessage(s, message) ==
    updateStatusFile(logDebug([s EXCEPT !.lastQbusError = message], message))

\* ------------------------------------------------------------ lease calls
\* out: outcome of dbus_bus_get, err: its error text.  Returns the state and
\* whether a connection came back.
getConnection(s, label, out, err) ==
    LET s1 == [s EXCEPT !.busCalls = @ + 1] IN
    IF out = "error"
    THEN [s |-> setStatusMessage(s1, <<"Failed to connect to ", label, " bus: ">> \o err),
          ret |-> FALSE]
    ELSE IF out = "null"
    THEN [s |-> setStatusMessage(s1, <<"Failed to obtain ", label, " DBus connection (nullptr).">>),
          ret |-> FALSE]
    ELSE [s |-> s1, ret |-> TRUE]

\* acquireScreenSaverInhibitor that returns false on a null reply without a
\* status message
acquireScreenSaverInhibitor_SilentNullReply(s, e) ==
    LET g == IF ~s.inhibitorHandles.sessionConnection
             THEN getConnection(s, "session", e.conn, e.err)
             ELSE [s |-> s, ret |-> TRUE]
        s1 == [g.s EXCEPT !.inhibitorHandles.sessionConnection = g.ret]
        s2 == [s1 EXCEPT !.busCalls = @ + 1]
    IN
    IF ~s1.inhibitorHandles.sessionConnection
    THEN [s |-> s1, ret |-> FALSE]
    ELSE IF e.call = "error"
    THEN [s |-> setStatusMessage(s2, <<"ScreenSaver.Inhibit failed: ">> \o e.err),
          ret |-> FALSE]
    ELSE IF e.call = "nullreply"
    THEN [s |-> s2, ret |-> FALSE]
    ELSE IF e.call = "badargs"
    THEN [s |-> setStatusMessage(s2, <<"Unable to parse ScreenSaver.Inhibit reply: ">> \o e.err),
          ret |-> FALSE]
    ELSE [s |-> logDebug([s2 EXCEPT !.inhibitorHandles.screenSaverCookie = e.cookie,
                                    !.heldCookies = @ \cup {e.cookie},
                                    !.granted = @ \cup {"screen"}],
                         <<"Screen saver inhibitor acquired. Cookie=", DecStr(e.cookie)>>),
          ret |-> TRUE]

\* e: what the environment answers: e.conn (dbus_bus_get), e.alloc (message
\* creation), e.call (the Inhibit call), e.err (error text), e.cookie
acquireScreenSaverInhibitor(s, e) ==
    LET g == IF ~s.inhibitorHandles.sessionConnection
             THEN getConnection(s, "session", e.conn, e.err)
             ELSE [s |-> s, ret |-> TRUE]
        s1 == [g.s EXCEPT !.inhibitorHandles.sessionConnection = g.ret]
        s2 == [s1 EXCEPT !.busCalls = @ + 1]
    IN
    IF ~s1.inhibitorHandles.sessionConnection
    THEN [s |-> s1, ret |-> FALSE]
    ELSE IF ~e.alloc
    THEN [s |-> setStatusMessage(s1, <<"Failed to create DBus message for ScreenSaver.Inhibit.">>),
          ret |-> FALSE]
    ELSE IF e.call = "error"
    THEN [s |-> setStatusMessage(s2, <<"ScreenSaver.Inhibit failed: ">> \o e.err),
          ret |-> FALSE]
    ELSE IF e.call = "nullreply"
    THEN [s |-> setStatusMessage(s2, <<"ScreenSaver.Inhibit returned null reply.">>),
          ret |-> FALSE]
    ELSE IF e.call = "badargs"
    THEN [s |-> setStatusMessage(s2, <<"Unable to parse ScreenSaver.Inhibit reply: ">> \o e.err),
          ret |-> FALSE]
    ELSE [s |-> logDebug([s2 EXCEPT !.inhibitorHandles.screenSaverCookie = e.cookie,
                                    !.heldCookies = @ \cup {e.cookie},
                                    !.granted = @ \cup {"screen"}],
                         <<"Screen saver inhibitor acquired. Cookie=", DecStr(e.cookie)>>),
          ret |-> TRUE]

\* fdOut of the source is the field of inhibitorHandles that `what` names
SetFd(s, what, fd) ==
    IF what = "idle" THEN [s EXCEPT !.inhibitorHandles.idleFd = fd]
                     ELSE [s EXCEPT !.inhibitorHandles.sleepFd = fd]

GetFd(s, what) ==
    IF what = "idle" THEN s.inhibitorHandles.idleFd ELSE s.inhibitorHandles.sleepFd

\* e: e.conn, e.alloc, e.call, e.err as above, e.fd the descriptor granted
\* acquireLogin1Inhibitor that forgets the recorded descriptor when the call
\* fails
acquireLogin1Inhibitor_ResetsFd(s, what, e) ==
    LET g == IF ~s.inhibitorHandles.systemConnection
             THEN getConnection(s, "system", e.conn, e.err)
             ELSE [s |-> s, ret |-> TRUE]
        s1 == [g.s EXCEPT !.inhibitorHandles.systemConnection = g.ret]
        s2 == SetFd([s1 EXCEPT !.busCalls = @ + 1], what, -1)
    IN
    IF ~s1.inhibitorHandles.systemConnection
    THEN [s |-> s1, ret |-> FALSE]
    ELSE IF e.call = "error"
    THEN [s |-> setStatusMessage(s2, <<"login1.Inhibit(", what, ") failed: ">> \o e.err),
          ret |-> FALSE]
    ELSE IF e.call = "nullreply"
    THEN [s |-> setStatusMessage(s2, <<"login1.Inhibit(", what, ") returned null reply.">>),
          ret |-> FALSE]
    ELSE IF e.call = "noargs"
    THEN [s |-> setStatusMessage(s2, <<"login1.Inhibit(", what, ") reply has no arguments.">>),
          ret |-> FALSE]
    ELSE IF e.call = "notfd"
    THEN [s |-> setStatusMessage(s2, <<"login1.Inhibit(", what, ") reply is not a UNIX FD.">>),
          ret |-> FALSE]
    ELSE [s |-> logDebug([SetFd(s2, what, e.fd) EXCEPT !.openFds = @ \cup {e.fd},
                                                       !.granted = @ \cup {what}],
                         <<"systemd inhibitor for ", what, " acquired. FD=", DecStr(e.fd)>>),
          ret |-> TRUE]

acquireLogin1Inhibitor(s, what, e) ==
    LET g == IF ~s.inhibitorHandles.systemConnection
             THEN getConnection(s, "system", e.conn, e.err)
             ELSE [s |-> s, ret |-> TRUE]
        s1 == [g.s EXCEPT !.inhibitorHandles.systemConnection = g.ret]
        s2 == [s1 EXCEPT !.busCalls = @ + 1]
    IN
    IF ~s1.inhibitorHandles.systemConnection
    THEN [s |-> s1, ret |-> FALSE]
    ELSE IF ~e.alloc
    THEN [s |-> setStatusMessage(s1, <<"Failed to create DBus message for login1.Inhibit ", what, ".">>),
          ret |-> FALSE]
    ELSE IF e.call = "error"
    THEN [s |-> setStatusMessage(s2, <<"login1.Inhibit(", what, ") failed: ">> \o e.err),
          ret |-> FALSE]
    ELSE IF e.call = "nullreply"
    THEN [s |-> setStatusMessage(s2, <<"login1.Inhibit(", what, ") returned null reply.">>),
          ret |-> FALSE]
    ELSE IF e.call = "noargs"
    THEN [s |-> setStatusMessage(s2, <<"login1.Inhibit(", what, ") reply has no arguments.">>),
          ret |-> FALSE]
    ELSE IF e.call = "notfd"
    THEN [s |-> setStatusMessage(s2, <<"login1.Inhibit(", what, ") reply is not a UNIX FD.">>),
          ret |-> FALSE]
    ELSE [s |-> logDebug([SetFd(s2, what, e.fd) EXCEPT !.openFds = @ \cup {e.fd},
                                                       !.granted = @ \cup {what}],
                         <<"systemd inhibitor for ", what, " acquired. FD=", DecStr(e.fd)>>),
          ret |-> TRUE]

\* r: r.alloc (message creation), r.call (the UnInhibit call), r.err
releaseScreenSaverInhibitor(s, r) ==
    IF s.inhibitorHandles.screenSaverCookie = 0 \/ ~s.inhibitorHandles.sessionConnection
    THEN s
    ELSE IF ~r.alloc
    THEN logDebug(s, <<"Failed to create DBus message for ScreenSaver.UnInhibit.">>)
    ELSE
      LET cookie == s.inhibitorHandles.screenSaverCookie
          s1 == [s EXCEPT !.busCalls = @ + 1,
                          !.unInhibited = @ \cup {cookie},
                          !.doubleRelease = @ \/ cookie \notin s.heldCookies,
                          !.heldCookies = IF r.call = "ok" THEN @ \ {cookie} ELSE @]
          s2 == IF r.call = "error"
                THEN logDebug(s1, <<"ScreenSaver.UnInhibit failed: ">> \o r.err)
                ELSE s1
      IN logDebug([s2 EXCEPT !.inhibitorHandles.screenSaverCookie = 0],
                  <<"Screen saver inhibitor released.">>)

\* releaseLogin1Fd that closes the descriptor and keeps it recorded
releaseLogin1Fd_KeepsFd(s, what) ==
    IF GetFd(s, what) >= 0
    THEN LET fd == GetFd(s, what)
             s1 == [s EXCEPT !.busCalls = @ + 1,
                             !.closedFds = @ \cup {fd},
                             !.doubleRelease = @ \/ fd \notin s.openFds,
                             !.openFds = @ \ {fd}]
         IN logDebug(s1, <<"systemd inhibitor for ", what, " released.">>)
    ELSE s

releaseLogin1Fd(s, what) ==
    IF GetFd(s, what) >= 0
    THEN LET fd == GetFd(s, what)
             s1 == [s EXCEPT !.busCalls = @ + 1,
                             !.closedFds = @ \cup {fd},
                             !.doubleRelease = @ \/ fd \notin s.openFds,
                             !.openFds = @ \ {fd}]
             s2 == logDebug(s1, <<"systemd inhibitor for ", what, " released.">>)
         IN SetFd(s2, what, -1)
    ELSE s

\* cleanupInhibitors that forgets the sleep descriptor
cleanupInhibitors_KeepsSleepFd(s, r) ==
    LET s1 == releaseScreenSaverInhibitor(s, r)
        s2 == releaseLogin1Fd(s1, "idle")
        s4 == [s2 EXCEPT !.inhibitorsActive = FALSE, !.cleanedSince = TRUE]
        s5 == [s4 EXCEPT !.inhibitorHandles.sessionConnection = FALSE]
        s6 == [s5 EXCEPT !.inhibitorHandles.systemConnection = FALSE]
    IN updateStatusFile(s6)

\* cleanupInhibitors that writes the status file before it clears
\* inhibitorsActive
cleanupInhibitors_PublishesFirst(s, r) ==
    LET s0 == updateStatusFile(s)
        s1 == releaseScreenSaverInhibitor(s0, r)
        s2 == releaseLogin1Fd(s1, "idle")
        s3 == releaseLogin1Fd(s2, "sleep")
        s4 == [s3 EXCEPT !.inhibitorsActive = FALSE, !.cleanedSince = TRUE]
        s5 == [s4 EXCEPT !.inhibitorHandles.sessionConnection = FALSE]
    IN [s5 EXCEPT !.inhibitorHandles.systemConnection = FALSE]

\* cleanupInhibitors without its updateStatusFile
cleanupInhibitors_NoPublish(s, r) ==
    LET s1 == releaseScreenSaverInhibitor(s, r)
        s2 == releaseLogin1Fd(s1, "idle")
        s3 == releaseLogin1Fd(s2, "sleep")
        s4 == [s3 EXCEPT !.inhibitorsActive = FALSE, !.cleanedSince = TRUE]
        s5 == [s4 EXCEPT !.inhibitorHandles.sessionConnection = FALSE]
    IN [s5 EXCEPT !.inhibitorHandles.systemConnection = FALSE]

\* cleanupInhibitors that keeps the session connection
cleanupInhibitors_KeepsSession(s, r) ==
    LET s1 == releaseScreenSaverInhibitor(s, r)
        s2 == releaseLogin1Fd(s1, "idle")
        s3 == releaseLogin1Fd(s2, "sleep")
        s4 == [s3 EXCEPT !.inhibitorsActive = FALSE, !.cleanedSince = TRUE]
        s6 == [s4 EXCEPT !.inhibitorHandles.systemConnection = FALSE]
    IN updateStatusFile(s6)

cleanupInhibitors(s, r) ==
    LET s1 == releaseScreenSaverInhibitor(s, r)
        s2 == releaseLogin1Fd(s1, "idle")
        s3 == releaseLogin1Fd(s2, "sleep")
        s4 == [s3 EXCEPT !.inhibitorsActive = FALSE, !.cleanedSince = TRUE]
        s5 == [s4 EXCEPT !.inhibitorHandles.sessionConnection = FALSE]
        s6 == [s5 EXCEPT !.inhibitorHandles.systemConnection = FALSE]
    IN updateStatusFile(s6)

\* acquireInhibitors that leaves the sleep lease out of the conjunction
acquireInhibitorsResult_IgnoresSleep(s, scr, idl, slp) ==
    LET s1 == [s EXCEPT !.inhibitorsActive = scr /\ idl] IN
    IF s1.inhibitorsActive
    THEN [s |-> setStatusMessage(s1, MsgActive), ret |-> TRUE]
    ELSE [s |-> updateStatusFile(s1), ret |-> FALSE]

\* acquireInhibitors that publishes a success without setting the message
acquireInhibitorsResult_NoMessage(s, scr, idl, slp) ==
    LET s1 == [s EXCEPT !.inhibitorsActive = scr /\ idl /\ slp] IN
    IF s1.inhibitorsActive
    THEN [s |-> updateStatusFile(s1), ret |-> TRUE]
    ELSE [s |-> updateStatusFile(s1), ret |-> FALSE]

\* the end of acquireInhibitors, after the three lease calls have returned
\* scr, idl, slp
acquireInhibitorsResult(s, scr, idl, slp) ==
    LET s1 == [s EXCEPT !.inhibitorsActive = scr /\ idl /\ slp] IN
    IF s1.inhibitorsActive
    THEN [s |-> setStatusMessage(s1, MsgActive), ret |-> TRUE]
    ELSE [s |-> updateStatusFile(s1), ret |-> FALSE]

\* pid of the controller that ran before
PriorPid == ControllerPid - 1
\* no earlier controller runs
NoPrior == [pc |-> "none", inhibitorsActive |-> FALSE, lastQbusError |-> <<"NONE">>]

\* ------------------------------------------------------------------ Init
\* The controller on its own: "caffeine8 start" has forked it, recorded its
\* pid and returned; no command runs and no UI is open.
CliAtRest ==
    /\ prior = NoPrior
    /\ pidFile = [exists |-> TRUE, pid |-> ControllerPid]
    /\ procs = {ControllerPid}
    /\ nextPid = ControllerPid + 1
    /\ argv = <<"start">>
    /\ cmdSeq = 0
    /\ exitCode = 0
    /\ sigSent = {}
    /\ forkRet = "child"
    /\ uiOpen = FALSE
    /\ targetPid = -1
    /\ currentStatus = NoStatus
    /\ uiMessage = <<>>
    /\ uiSent = {}

\* a status file left behind by an earlier controller
StaleStatus == [exists |-> TRUE, pid |-> ControllerPid - 1, active |-> 1, debug |-> 0,
                message |-> MsgActive]

\* the state of the forked controller process when main calls
\* runInhibitorLoop: setDebugMode has run, nothing else has
Init ==
    /\ bothPending = FALSE
    /\ pc = "run"
    /\ acqCaller = "initial"
    /\ inhibitorHandles = [sessionConnection |-> FALSE, systemConnection |-> FALSE,
                           screenSaverCookie |-> 0, idleFd |-> -1, sleepFd |-> -1]
    /\ debugLoggingEnabled \in BOOLEAN
    /\ inhibitorsActive = FALSE
    /\ terminationRequested = 0
    /\ acquireRequested = 0
    /\ releaseRequested = 0
    /\ lastQbusError = MsgNone
    /\ screen = FALSE /\ idle = FALSE /\ sleep = FALSE
    /\ wereActive = FALSE
    /\ handlers = {}
    /\ statusFile \in {NoFile, StaleStatus}
    /\ stdout = IF debugLoggingEnabled THEN <<"Debug logging enabled.">> ELSE NoLine
    /\ heldCookies = {}
    /\ openFds = {}
    /\ granted = {}
    /\ cycleDone = FALSE
    /\ cleanedSince = FALSE
    /\ branch = "none"
    /\ branchDone = FALSE
    /\ pubs = 0
    /\ busCalls = 0
    /\ unInhibited = {}
    /\ closedFds = {}
    /\ doubleRelease = FALSE
    /\ termDelivered = FALSE
    /\ killedBy = "none"
    /\ sigArg = "none"
    /\ CliAtRest

\* ---------------------------------------------------------------- signals
Ended == {"exited", "killed"}

\* handleSignal with the cases of SIGUSR1 and SIGUSR2 exchanged
handleSignal_SwapsUsr(sig) ==
    /\ terminationRequested' = IF sig \in {"SIGTERM", "SIGINT"} THEN 1 ELSE terminationRequested
    /\ acquireRequested' = IF sig = "SIGUSR2" THEN 1 ELSE acquireRequested
    /\ releaseRequested' = IF sig = "SIGUSR1" THEN 1 ELSE releaseRequested

handleSignal(sig) ==
    /\ terminationRequested' = IF sig \in {"SIGTERM", "SIGINT"} THEN 1 ELSE terminationRequested
    /\ acquireRequested' = IF sig = "SIGUSR1" THEN 1 ELSE acquireRequested
    /\ releaseRequested' = IF sig = "SIGUSR2" THEN 1 ELSE releaseRequested

\* a signal arrives whose handler was installed by sigaction
DeliverHandled ==
    /\ pc \notin Ended
    /\ \E sig \in handlers :
         /\ handleSignal(sig)
         /\ termDelivered' = (termDelivered \/ sig \in {"SIGTERM", "SIGINT"})
    /\ UNCHANGED <<pc, acqCaller, screen, idle, sleep, wereActive, handlers>>
    /\ UNCHANGED stVars
    /\ UNCHANGED <<cycleDone, branch, branchDone, killedBy, sigArg, cliVars, bothPending>>

\* a signal arrives whose disposition is still the default one: for each of
\* the four signals the default action ends the process
DeliverDefault ==
    /\ pc \notin Ended
    /\ \E sig \in Signals \ handlers :
         /\ killedBy' = sig
         /\ termDelivered' = (termDelivered \/ sig \in {"SIGTERM", "SIGINT"})
    /\ pc' = "killed"
    /\ UNCHANGED <<acqCaller, terminationRequested, acquireRequested, releaseRequested,
                   screen, idle, sleep, wereActive, handlers>>
    /\ UNCHANGED stVars
    /\ UNCHANGED <<cycleDone, branch, branchDone, sigArg, cliVars, bothPending>>

\* ----------------------------------------------------- acquireInhibitors
Min(S) == CHOOSE x \in S : \A y \in S : x <= y

\* What the environment can answer to ScreenSaver.Inhibit.  A granted cookie
\* is one the service does not hold already; cookies are opaque and
\* interchangeable, so the lowest free one stands for any of them.  An answer that is not looked
\* at is not varied: no connection attempt when the connection is cached, no
\* call when the connection failed, no cookie unless the call succeeds.
ScreenEnv(s) ==
    { e \in [conn : ConnOutcomes, alloc : AllocOutcomes, call : ScreenOutcomes,
             err : ErrTexts, cookie : CookieRange] :
        /\ s.inhibitorHandles.sessionConnection => e.conn = "ok"
        /\ e.conn # "ok" => e.call = "error"
        /\ e.call = "ok" => CookieRange \ s.heldCookies # {}
                              /\ e.cookie = Min(CookieRange \ s.heldCookies)
        /\ e.call # "ok" => e.cookie = 1 }

\* What the environment can answer to login1.Inhibit.  A granted descriptor
\* is the lowest one free in the process.
Login1Env(s) ==
    { e \in [conn : ConnOutcomes, alloc : AllocOutcomes, call : Login1Outcomes,
             err : ErrTexts, fd : FdRange] :
        /\ s.inhibitorHandles.systemConnection => e.conn = "ok"
        /\ e.conn # "ok" => e.call = "error"
        /\ e.call = "ok" => FdRange \ s.openFds # {} /\ e.fd = Min(FdRange \ s.openFds)
        /\ e.call # "ok" => e.fd = 3 }

ReleaseEnv ==
    [alloc : AllocOutcomes, call : UnInhibitOutcomes, err : ErrTexts]

\* entry of acquireInhibitors
BeginAcquire(s) == [s EXCEPT !.granted = {}]

\* runInhibitorLoop is entered and calls acquireInhibitors
RunInhibitorLoop ==
    /\ pc = "run"
    /\ pc' = "acqScreen"
    /\ acqCaller' = "initial"
    /\ branch' = "initial"
    /\ branchDone' = FALSE
    /\ cycleDone' = FALSE
    /\ Commit(BeginAcquire(BeginBranch(St)))
    /\ UNCHANGED <<terminationRequested, acquireRequested, releaseRequested,
                   screen, idle, sleep, wereActive, handlers, termDelivered, killedBy, sigArg, cliVars, bothPending>>

AcquireScreen ==
    /\ pc = "acqScreen"
    /\ \E e \in ScreenEnv(St) :
         LET r == acquireScreenSaverInhibitor(St, e) IN
         /\ screen' = r.ret
         /\ Commit(r.s)
    /\ pc' = "acqIdle"
    /\ UNCHANGED <<acqCaller, terminationRequested, acquireRequested, releaseRequested,
                   idle, sleep, wereActive, handlers>>
    /\ UNCHANGED histVars

\* the idle lease left out when the screen-saver lease has failed
AcquireIdle_SkipsAfterFailure ==
    /\ pc = "acqIdle"
    /\ \E e \in Login1Env(St) :
         LET r == IF screen THEN acquireLogin1Inhibitor(St, "idle", e)
                            ELSE [s |-> St, ret |-> FALSE] IN
         /\ idle' = r.ret
         /\ Commit(r.s)
    /\ pc' = "acqSleep"
    /\ UNCHANGED <<acqCaller, terminationRequested, acquireRequested, releaseRequested,
                   screen, sleep, wereActive, handlers>>
    /\ UNCHANGED histVars

AcquireIdle ==
    /\ pc = "acqIdle"
    /\ \E e \in Login1Env(St) :
         LET r == acquireLogin1Inhibitor(St, "idle", e) IN
         /\ idle' = r.ret
         /\ Commit(r.s)
    /\ pc' = "acqSleep"
    /\ UNCHANGED <<acqCaller, terminationRequested, acquireRequested, releaseRequested,
                   screen, sleep, wereActive, handlers>>
    /\ UNCHANGED histVars

AcquireSleep ==
    /\ pc = "acqSleep"
    /\ \E e \in Login1Env(St) :
         LET r == acquireLogin1Inhibitor(St, "sleep", e) IN
         /\ sleep' = r.ret
         /\ Commit(r.s)
    /\ pc' = "acqFinish"
    /\ UNCHANGED <<acqCaller, terminationRequested, acquireRequested, releaseRequested,
                   screen, idle, wereActive, handlers>>
    /\ UNCHANGED histVars

\* acquireInhibitors sets inhibitorsActive, publishes and returns to its
\* caller, which logs a failure
AcquireFinish ==
    /\ pc = "acqFinish"
    /\ LET r == acquireInhibitorsResult([St EXCEPT !.cleanedSince = FALSE], screen, idle, sleep)
           failLine == IF acqCaller = "initial"
                       THEN <<"Initial inhibitor acquisition failed.">>
                       ELSE <<"Acquire request failed; inhibitors remain inactive.">>
       IN Commit(IF r.ret THEN r.s ELSE logDebug(r.s, failLine))
    /\ pc' = IF acqCaller = "initial" THEN "install" ELSE "checkRelease"
    /\ screen' = FALSE /\ idle' = FALSE /\ sleep' = FALSE
    /\ cycleDone' = TRUE
    /\ branchDone' = TRUE
    /\ UNCHANGED <<acqCaller, terminationRequested, acquireRequested, releaseRequested,
                   wereActive, handlers, branch, termDelivered, killedBy, sigArg, cliVars, bothPending>>

\* one sigaction call; the four calls are made in SigactionOrder
InstallHandler ==
    /\ pc = "install"
    /\ handlers' = handlers \cup {SigactionOrder[Cardinality(handlers) + 1]}
    /\ pc' = IF Cardinality(handlers) + 1 = Len(SigactionOrder) THEN "loopTest" ELSE "install"
    /\ UNCHANGED <<acqCaller, terminationRequested, acquireRequested, releaseRequested,
                   screen, idle, sleep, wereActive>>
    /\ UNCHANGED stVars
    /\ UNCHANGED histVars

\* ------------------------------------------------------- the polling loop
\* the loop test passing while an acquire request is pending
LoopTest_ServesPending ==
    /\ pc = "loopTest"
    /\ pc' = IF terminationRequested = 1 /\ acquireRequested = 0
             THEN "terminating" ELSE "checkAcquire"
    /\ UNCHANGED <<acqCaller, terminationRequested, acquireRequested, releaseRequested,
                   screen, idle, sleep, wereActive, handlers>>
    /\ UNCHANGED stVars
    /\ UNCHANGED histVars

\* while (!terminationRequested)
LoopTest ==
    /\ pc = "loopTest"
    /\ pc' = IF terminationRequested = 1 THEN "terminating" ELSE "checkAcquire"
    /\ UNCHANGED <<acqCaller, terminationRequested, acquireRequested, releaseRequested,
                   screen, idle, sleep, wereActive, handlers>>
    /\ UNCHANGED stVars
    /\ UNCHANGED histVars

\* the acquire branch taking the release request with it
AcquireRequest_ClearsRelease ==
    /\ pc = "checkAcquire"
    /\ acquireRequested = 1
    /\ ~inhibitorsActive
    /\ acquireRequested' = 0
    /\ releaseRequested' = 0
    /\ pc' = "acqScreen"
    /\ acqCaller' = "loop"
    /\ branch' = "acquire"
    /\ branchDone' = FALSE
    /\ cycleDone' = FALSE
    /\ Commit(BeginAcquire(BeginBranch(St)))
    /\ UNCHANGED <<terminationRequested, screen, idle, sleep,
                   wereActive, handlers, termDelivered, killedBy, sigArg, cliVars>>
    /\ bothPending' = (releaseRequested = 1)

\* if (acquireRequested) with inhibitorsActive false: acquireInhibitors is called
AcquireRequest ==
    /\ pc = "checkAcquire"
    /\ acquireRequested = 1
    /\ ~inhibitorsActive
    /\ acquireRequested' = 0
    /\ pc' = "acqScreen"
    /\ acqCaller' = "loop"
    /\ branch' = "acquire"
    /\ branchDone' = FALSE
    /\ cycleDone' = FALSE
    /\ Commit(BeginAcquire(BeginBranch(St)))
    /\ UNCHANGED <<terminationRequested, releaseRequested, screen, idle, sleep,
                   wereActive, handlers, termDelivered, killedBy, sigArg, cliVars>>
    /\ bothPending' = (releaseRequested = 1)

\* the already-active branch without its updateStatusFile
AcquireNoop_Silent ==
    /\ pc = "checkAcquire"
    /\ acquireRequested = 1
    /\ inhibitorsActive
    /\ acquireRequested' = 0
    /\ Commit(logDebug(BeginBranch(St), LogAlreadyActive))
    /\ pc' = "checkRelease"
    /\ branch' = "acquireNoop"
    /\ branchDone' = TRUE
    /\ UNCHANGED <<acqCaller, terminationRequested, releaseRequested, screen, idle, sleep,
                   wereActive, handlers, cycleDone, termDelivered, killedBy, sigArg, cliVars>>
    /\ bothPending' = (releaseRequested = 1)

\* the already-active branch with setStatusMessage in the place of logDebug
AcquireNoop_SetsMessage ==
    /\ pc = "checkAcquire"
    /\ acquireRequested = 1
    /\ inhibitorsActive
    /\ acquireRequested' = 0
    /\ Commit(setStatusMessage(BeginBranch(St), LogAlreadyActive))
    /\ pc' = "checkRelease"
    /\ branch' = "acquireNoop"
    /\ branchDone' = TRUE
    /\ UNCHANGED <<acqCaller, terminationRequested, releaseRequested, screen, idle, sleep,
                   wereActive, handlers, cycleDone, termDelivered, killedBy, sigArg, cliVars>>
    /\ bothPending' = (releaseRequested = 1)

\* if (acquireRequested) with inhibitorsActive true
AcquireNoop ==
    /\ pc = "checkAcquire"
    /\ acquireRequested = 1
    /\ inhibitorsActive
    /\ acquireRequested' = 0
    /\ Commit(updateStatusFile(logDebug(BeginBranch(St), LogAlreadyActive)))
    /\ pc' = "checkRelease"
    /\ branch' = "acquireNoop"
    /\ branchDone' = TRUE
    /\ UNCHANGED <<acqCaller, terminationRequested, releaseRequested, screen, idle, sleep,
                   wereActive, handlers, cycleDone, termDelivered, killedBy, sigArg, cliVars>>
    /\ bothPending' = (releaseRequested = 1)

\* acquireRequested is 0
AcquireSkip ==
    /\ pc = "checkAcquire"
    /\ acquireRequested = 0
    /\ pc' = "checkRelease"
    /\ UNCHANGED <<acqCaller, terminationRequested, acquireRequested, releaseRequested,
                   screen, idle, sleep, wereActive, handlers>>
    /\ UNCHANGED stVars
    /\ UNCHANGED histVars

\* if (releaseRequested) with inhibitorsActive true: cleanupInhibitors
ReleaseCleanup ==
    /\ pc = "checkRelease"
    /\ releaseRequested = 1
    /\ inhibitorsActive
    /\ releaseRequested' = 0
    /\ \E r \in ReleaseEnv : Commit(cleanupInhibitors(BeginBranch(St), r))
    /\ pc' = "relMsg"
    /\ branch' = "release"
    /\ branchDone' = FALSE
    /\ UNCHANGED <<acqCaller, terminationRequested, acquireRequested, screen, idle, sleep,
                   wereActive, handlers, cycleDone, termDelivered, killedBy, sigArg, cliVars, bothPending>>

\* ... followed by setStatusMessage("Inhibitors released by user request.")
ReleaseMessage ==
    /\ pc = "relMsg"
    /\ Commit(setStatusMessage(St, MsgReleasedByUser))
    /\ pc' = "sleep"
    /\ branchDone' = TRUE
    /\ UNCHANGED <<acqCaller, terminationRequested, acquireRequested, releaseRequested,
                   screen, idle, sleep, wereActive, handlers, cycleDone, branch,
                   termDelivered, killedBy, sigArg, cliVars, bothPending>>

\* the already-inactive branch running cleanupInhibitors all the same
ReleaseNoop_Cleans ==
    /\ pc = "checkRelease"
    /\ releaseRequested = 1
    /\ ~inhibitorsActive
    /\ releaseRequested' = 0
    /\ \E r \in ReleaseEnv :
         Commit(setStatusMessage(cleanupInhibitors(BeginBranch(St), r), MsgAlreadyInactive))
    /\ pc' = "sleep"
    /\ branch' = "releaseNoop"
    /\ branchDone' = TRUE
    /\ UNCHANGED <<acqCaller, terminationRequested, acquireRequested, screen, idle, sleep,
                   wereActive, handlers, cycleDone, termDelivered, killedBy, sigArg, cliVars, bothPending>>

\* if (releaseRequested) with inhibitorsActive false
ReleaseNoop ==
    /\ pc = "checkRelease"
    /\ releaseRequested = 1
    /\ ~inhibitorsActive
    /\ releaseRequested' = 0
    /\ Commit(setStatusMessage(BeginBranch(St), MsgAlreadyInactive))
    /\ pc' = "sleep"
    /\ branch' = "releaseNoop"
    /\ branchDone' = TRUE
    /\ UNCHANGED <<acqCaller, terminationRequested, acquireRequested, screen, idle, sleep,
                   wereActive, handlers, cycleDone, termDelivered, killedBy, sigArg, cliVars, bothPending>>

\* releaseRequested is 0
ReleaseSkip ==
    /\ pc = "checkRelease"
    /\ releaseRequested = 0
    /\ pc' = "sleep"
    /\ UNCHANGED <<acqCaller, terminationRequested, acquireRequested, releaseRequested,
                   screen, idle, sleep, wereActive, handlers>>
    /\ UNCHANGED stVars
    /\ UNCHANGED histVars

\* sleep(1) returns: the iteration is over, and with it the history of the
\* transition it processed
\* the end of the iteration forgetting the requests that arrived in it
Sleep_DropsRequests ==
    /\ pc = "sleep"
    /\ pc' = "loopTest"
    /\ acquireRequested' = 0
    /\ releaseRequested' = 0
    /\ branch' = "none"
    /\ branchDone' = FALSE
    /\ Commit(BeginBranch(St))
    /\ UNCHANGED <<acqCaller, terminationRequested,
                   screen, idle, sleep, wereActive, handlers, cycleDone, termDelivered,
                   killedBy, sigArg, cliVars>>
    /\ bothPending' = FALSE

Sleep ==
    /\ pc = "sleep"
    /\ pc' = "loopTest"
    /\ branch' = "none"
    /\ branchDone' = FALSE
    /\ Commit(BeginBranch(St))
    /\ UNCHANGED <<acqCaller, terminationRequested, acquireRequested, releaseRequested,
                   screen, idle, sleep, wereActive, handlers, cycleDone, termDelivered,
                   killedBy, sigArg, cliVars>>
    /\ bothPending' = FALSE

\* after the loop: wereActive is taken and cleanupInhibitors runs
Terminate ==
    /\ pc = "terminating"
    /\ wereActive' = inhibitorsActive
    /\ \E r \in ReleaseEnv :
         Commit(cleanupInhibitors(
                  logDebug(BeginBranch(St), <<"Termination requested, cleaning up inhibitors.">>), r))
    /\ pc' = "termMsg"
    /\ branch' = "terminate"
    /\ branchDone' = FALSE
    /\ UNCHANGED <<acqCaller, terminationRequested, acquireRequested, releaseRequested,
                   screen, idle, sleep, handlers, cycleDone, termDelivered, killedBy, sigArg, cliVars, bothPending>>

\* the exit message set whether or not the inhibitors were active
TerminateMessage_Always ==
    /\ pc = "termMsg"
    /\ Commit(setStatusMessage(St, MsgReleasedExiting))
    /\ pc' = "exited"
    /\ branchDone' = TRUE
    /\ UNCHANGED <<acqCaller, terminationRequested, acquireRequested, releaseRequested,
                   screen, idle, sleep, wereActive, handlers, cycleDone, branch,
                   termDelivered, killedBy, sigArg, cliVars, bothPending>>

\* if (wereActive) setStatusMessage(...); runInhibitorLoop returns and main
\* returns 0
TerminateMessage ==
    /\ pc = "termMsg"
    /\ Commit(IF wereActive THEN setStatusMessage(St, MsgReleasedExiting) ELSE St)
    /\ pc' = "exited"
    /\ branchDone' = TRUE
    /\ UNCHANGED <<acqCaller, terminationRequested, acquireRequested, releaseRequested,
                   screen, idle, sleep, wereActive, handlers, cycleDone, branch,
                   termDelivered, killedBy, sigArg, cliVars, bothPending>>

Next ==
    \/ RunInhibitorLoop
    \/ AcquireScreen
    \/ AcquireIdle
    \/ AcquireSleep
    \/ AcquireFinish
    \/ InstallHandler
    \/ LoopTest
    \/ AcquireRequest
    \/ AcquireNoop
    \/ AcquireSkip
    \/ ReleaseCleanup
    \/ ReleaseMessage
    \/ ReleaseNoop
    \/ ReleaseSkip
    \/ Sleep
    \/ Terminate
    \/ TerminateMessage
    \/ DeliverHandled
    \/ DeliverDefault

Spec == Init /\ [][Next]_vars

\* the steps of the controller itself: every call it makes returns (the
\* bus calls time out, sleep(1) ends) and the process is scheduled
ControllerStep ==
    \/ RunInhibitorLoop
    \/ AcquireScreen
    \/ AcquireIdle
    \/ AcquireSleep
    \/ AcquireFinish
    \/ InstallHandler
    \/ LoopTest
    \/ AcquireRequest
    \/ AcquireNoop
    \/ AcquireSkip
    \/ ReleaseCleanup
    \/ ReleaseMessage
    \/ ReleaseNoop
    \/ ReleaseSkip
    \/ Sleep
    \/ Terminate
    \/ TerminateMessage

\* a step that moves the controller: pc or handlers changes and the process
\* is not ended by it. Under Next these are the steps of ControllerStep
\* (ControllerStepsAdvance below), and one is possible in every state in
\* which the process has not ended.
ControllerAdvances ==
    /\ pc \notin Ended
    /\ pc' \in {"acqScreen", "acqIdle", "acqSleep", "acqFinish", "install",
               "loopTest", "checkAcquire", "checkRelease", "relMsg", "sleep",
               "terminating", "termMsg", "exited"}
    /\ handlers' \in SUBSET Signals
    /\ <<pc', handlers'>> # <<pc, handlers>>

\* the controller keeps running; nothing is assumed about the arrival of signals
FairSpec == Init /\ [][Next]_vars /\ WF_<<pc, handlers>>(ControllerAdvances)

\* the steps of ControllerStep are the steps that move the controller
ControllerStepsAdvance ==
    [][ControllerStep <=> ((pc' # pc \/ handlers' # handlers) /\ pc' # "killed")]_vars

\* --------------------------------------- the command line, the PID file, the UI
\* main, checkExistingInstance and showUI.  Here a controller is a process:
\* it exists from its fork until it ends, signals are sent to it and it
\* writes the status file; the variables of the inside of a controller
\* stay at their values before runInhibitorLoop.  A pid is not given twice.
\* The PID file can be written (writePidFile finds it open).  Commands are
\* run one after the other: while the UI of an attach is open no other
\* command is run.
Pids == ControllerPid..(ControllerPid + MaxControllers - 1)

\* words of a command line; "status" is no command of caffeine8
Args == {"--debug", "start", "stop", "attach", "status"}
ArgLists == UNION { [1..n -> Args] : n \in 0..MaxArgs }

\* the argument loop of main and the default command
RECURSIVE parseArgs(_, _, _)
parseArgs(args, debugRequested, command) ==
    IF args = <<>>
    THEN [ok |-> TRUE, debugRequested |-> debugRequested,
          command |-> IF command = "" THEN "start" ELSE command]
    ELSE IF Head(args) = "--debug"
    THEN parseArgs(Tail(args), TRUE, command)
    ELSE IF command = ""
    THEN parseArgs(Tail(args), debugRequested, Head(args))
    ELSE [ok |-> FALSE, debugRequested |-> debugRequested, command |-> command]

\* the command lines main takes as the command cmd, and those it refuses
ArgsOf(cmd) ==
    { args \in ArgLists :
        LET p == parseArgs(args, FALSE, "") IN p.ok /\ p.command = cmd }
UsageArgs ==
    { args \in ArgLists :
        LET p == parseArgs(args, FALSE, "") IN
        ~p.ok \/ p.command \notin {"start", "stop", "attach"} }
StopArgs == ArgsOf("stop")
AttachArgs == ArgsOf("attach")
StartArgs == ArgsOf("start")

\* kill(pid, 0) == 0: the process exists
ProcessExists(pid) == pid \in procs

\* checkExistingInstance without the kill(existingPid, 0) test
checkExistingInstance_IgnoresProcess(existingPid) ==
    IF pidFile.exists
    THEN [ret |-> TRUE, existingPid |-> pidFile.pid]
    ELSE [ret |-> FALSE, existingPid |-> existingPid]

\* existingPid: the value of the reference parameter at the call.  Returns
\* the result and the value of existingPid after the call.
checkExistingInstance(existingPid) ==
    IF pidFile.exists
    THEN [ret |-> ProcessExists(pidFile.pid), existingPid |-> pidFile.pid]
    ELSE [ret |-> FALSE, existingPid |-> existingPid]

\* outcomes of fork, seen in the parent
ForkOutcomes == IF nextPid \in Pids THEN {"failed", "child"} ELSE {"failed"}

\* ---- readStatus
\* std::getline over a text: the lines without their "\n"
RECURSIVE SplitLines(_, _)
SplitLines(txt, line) ==
    IF txt = <<>> THEN (IF line = <<>> THEN <<>> ELSE <<line>>)
    ELSE IF Head(txt) = "\n" THEN <<line>> \o SplitLines(Tail(txt), <<>>)
    ELSE SplitLines(Tail(txt), Append(line, Head(txt)))

Digits == {"0", "1", "2", "3", "4", "5", "6", "7", "8", "9"}
DigitValue(c) == CHOOSE d \in 0..9 : DecStr(d) = c

\* strtol(value, &end, 10) of a text of digits: acc is the value so far
RECURSIVE strtol(_, _)
strtol(value, acc) ==
    IF value = <<>> \/ Head(value) \notin Digits THEN acc
    ELSE strtol(Tail(value), 10 * acc + DigitValue(Head(value)))

\* every non-empty value taken as true
IsTrue_NonEmpty(value) == value # <<>>

IsTrue(value) == value \in {<<"1">>, <<"true">>, <<"TRUE">>}

\* one turn of the while (std::getline) loop of readStatus
ReadLine(info, line) ==
    IF line = <<>> THEN info
    ELSE LET key == Head(line)
             value == Tail(line)
         IN
         IF key = "active=" THEN [info EXCEPT !.active = IsTrue(value)]
         ELSE IF key = "debug=" THEN [info EXCEPT !.debug = IsTrue(value)]
         ELSE IF key = "pid="
         THEN IF value # <<>> /\ Head(value) \in Digits
              THEN [info EXCEPT !.pid = strtol(value, 0)]
              ELSE info
         ELSE IF key = "message=" THEN [info EXCEPT !.message = value]
         ELSE info

RECURSIVE ReadLines(_, _)
ReadLines(info, lines) ==
    IF lines = <<>> THEN info
    ELSE ReadLines(ReadLine(info, Head(lines)), Tail(lines))

\* file: the status file; its text is what updateStatusFile wrote
readStatus(file) ==
    IF ~file.exists
    THEN [NoStatus EXCEPT !.message = <<"Status file not found.">>]
    ELSE LET info == ReadLines([NoStatus EXCEPT !.hasData = TRUE],
                               SplitLines(StatusFileText(file), <<>>))
         IN IF info.message = <<>>
            THEN [info EXCEPT !.message = <<"Status file present but empty.">>]
            ELSE info

\* ---- main
\* "Too many arguments provided." and "Invalid argument.": return 1
MainUsage ==
    \E args \in UsageArgs :
        /\ ~uiOpen
        /\ argv' = args /\ cmdSeq' = 1 - cmdSeq
        /\ exitCode' = 1
        /\ sigSent' = {} /\ forkRet' = "none"
        /\ UNCHANGED <<pidFile, procs, nextPid, uiOpen, targetPid,
                       currentStatus, uiMessage, uiSent, statusFile>>
        /\ UNCHANGED ctlOnly

\* stop without deletePidFile
MainStop_KeepsPidFile ==
    \E args \in StopArgs :
        LET chk == checkExistingInstance(-1) IN
        /\ ~uiOpen
        /\ argv' = args /\ cmdSeq' = 1 - cmdSeq
        /\ sigSent' = IF chk.ret THEN {<<chk.existingPid, "SIGTERM">>} ELSE {}
        /\ exitCode' = 0
        /\ forkRet' = "none"
        /\ UNCHANGED <<pidFile, procs, nextPid, uiOpen, targetPid, currentStatus, uiMessage,
                       uiSent, statusFile>>
        /\ UNCHANGED ctlOnly

\* command == "stop"
MainStop ==
    \E args \in StopArgs :
        LET chk == checkExistingInstance(-1) IN
        /\ ~uiOpen
        /\ argv' = args /\ cmdSeq' = 1 - cmdSeq
        /\ IF chk.ret
           THEN /\ sigSent' = {<<chk.existingPid, "SIGTERM">>}
                /\ pidFile' = NoFile
           ELSE /\ sigSent' = {}
                /\ UNCHANGED pidFile
        /\ exitCode' = 0
        /\ forkRet' = "none"
        /\ UNCHANGED <<procs, nextPid, uiOpen, targetPid, currentStatus, uiMessage,
                       uiSent, statusFile>>
        /\ UNCHANGED ctlOnly

\* showUI(target) up to its event loop; display: XOpenDisplay and the two
\* images succeeded
showUI(target, display) ==
    IF display
    THEN /\ uiOpen' = TRUE
         /\ targetPid' = target
         /\ currentStatus' = readStatus(statusFile)
         /\ uiMessage' = <<>>
         /\ uiSent' = {}
         /\ UNCHANGED exitCode
    ELSE /\ exitCode' = 0
         /\ UNCHANGED <<uiOpen, targetPid, currentStatus, uiMessage, uiSent>>

\* attach without existingPid = pid after the fork
MainAttach_KeepsExistingPid ==
    \E args \in AttachArgs, display \in BOOLEAN :
        LET chk == checkExistingInstance(-1) IN
        /\ ~uiOpen
        /\ argv' = args /\ cmdSeq' = 1 - cmdSeq
        /\ sigSent' = {}
        /\ UNCHANGED statusFile
        /\ IF ~chk.ret
           THEN \E f \in ForkOutcomes :
                  /\ forkRet' = f
                  /\ IF f = "child"
                     THEN /\ procs' = procs \cup {nextPid}
                          /\ nextPid' = nextPid + 1
                          /\ pidFile' = [exists |-> TRUE, pid |-> nextPid]
                          /\ showUI(chk.existingPid, display)
                     ELSE /\ exitCode' = 1
                          /\ UNCHANGED <<procs, nextPid, pidFile, uiOpen, targetPid,
                                         currentStatus, uiMessage, uiSent>>
           ELSE /\ forkRet' = "none"
                /\ UNCHANGED <<procs, nextPid, pidFile>>
                /\ showUI(chk.existingPid, display)
        /\ UNCHANGED ctlOnly

\* command == "attach"
MainAttach ==
    \E args \in AttachArgs, display \in BOOLEAN :
        LET chk == checkExistingInstance(-1) IN
        /\ ~uiOpen
        /\ argv' = args /\ cmdSeq' = 1 - cmdSeq
        /\ sigSent' = {}
        /\ UNCHANGED statusFile
        /\ IF ~chk.ret
           THEN \E f \in ForkOutcomes :
                  /\ forkRet' = f
                  /\ IF f = "child"
                     THEN /\ procs' = procs \cup {nextPid}
                          /\ nextPid' = nextPid + 1
                          /\ pidFile' = [exists |-> TRUE, pid |-> nextPid]
                          /\ showUI(nextPid, display)
                     ELSE /\ exitCode' = 1
                          /\ UNCHANGED <<procs, nextPid, pidFile, uiOpen, targetPid,
                                         currentStatus, uiMessage, uiSent>>
           ELSE /\ forkRet' = "none"
                /\ UNCHANGED <<procs, nextPid, pidFile>>
                /\ showUI(chk.existingPid, display)
        /\ UNCHANGED ctlOnly

\* command == "start"
MainStart ==
    \E args \in StartArgs, f \in ForkOutcomes :
        LET chk == checkExistingInstance(-1) IN
        /\ ~uiOpen
        /\ argv' = args /\ cmdSeq' = 1 - cmdSeq
        /\ IF chk.ret
           THEN /\ sigSent' = {<<chk.existingPid, "SIGTERM">>}
           ELSE sigSent' = {}
        /\ forkRet' = f
        /\ IF f = "child"
           THEN /\ procs' = procs \cup {nextPid}
                /\ nextPid' = nextPid + 1
                /\ pidFile' = [exists |-> TRUE, pid |-> nextPid]
                /\ exitCode' = 0
           ELSE /\ exitCode' = 1
                /\ UNCHANGED <<procs, nextPid, pidFile>>
        /\ UNCHANGED <<uiOpen, targetPid, currentStatus, uiMessage, uiSent, statusFile>>
        /\ UNCHANGED ctlOnly

\* ---- the event loop of showUI
\* Expose or ConfigureNotify: render(true)
UiExpose ==
    /\ uiOpen
    /\ currentStatus' = readStatus(statusFile)
    /\ UNCHANGED <<pidFile, procs, nextPid, argv, cmdSeq, exitCode, sigSent,
                   forkRet, uiOpen, targetPid, uiMessage, uiSent, statusFile>>
    /\ UNCHANGED ctlOnly

\* key R
UiRefresh ==
    /\ uiOpen
    /\ uiMessage' = <<"Status refreshed.">>
    /\ currentStatus' = readStatus(statusFile)
    /\ UNCHANGED <<pidFile, procs, nextPid, argv, cmdSeq, exitCode, sigSent,
                   forkRet, uiOpen, targetPid, uiSent, statusFile>>
    /\ UNCHANGED ctlOnly

\* the toggle without the test of targetPid
UiToggle_NoPidTest ==
    /\ uiOpen
    /\ LET signalToSend == IF currentStatus.active THEN "SIGUSR2" ELSE "SIGUSR1" IN
       /\ uiSent' = uiSent \cup {<<targetPid, signalToSend>>}
       /\ IF ProcessExists(targetPid)
          THEN /\ uiMessage' = IF currentStatus.active
                               THEN <<"Toggle requested: release inhibitors.">>
                               ELSE <<"Toggle requested: acquire inhibitors.">>
               /\ currentStatus' = readStatus(statusFile)
          ELSE /\ uiMessage' = <<"Failed to signal caffeine8 process.">>
               /\ UNCHANGED currentStatus
    /\ UNCHANGED <<pidFile, procs, nextPid, argv, cmdSeq, exitCode, sigSent,
                   forkRet, uiOpen, targetPid, statusFile>>
    /\ UNCHANGED ctlOnly

\* key T
UiToggle ==
    /\ uiOpen
    /\ IF targetPid > 0
       THEN LET signalToSend == IF currentStatus.active THEN "SIGUSR2" ELSE "SIGUSR1" IN
            /\ uiSent' = uiSent \cup {<<targetPid, signalToSend>>}
            /\ IF ProcessExists(targetPid)
               THEN /\ uiMessage' = IF currentStatus.active
                                    THEN <<"Toggle requested: release inhibitors.">>
                                    ELSE <<"Toggle requested: acquire inhibitors.">>
                    /\ currentStatus' = readStatus(statusFile)
               ELSE /\ uiMessage' = <<"Failed to signal caffeine8 process.">>
                    /\ UNCHANGED currentStatus
       ELSE /\ uiMessage' = <<"No active caffeine8 process.">>
            /\ UNCHANGED <<uiSent, currentStatus>>
    /\ UNCHANGED <<pidFile, procs, nextPid, argv, cmdSeq, exitCode, sigSent,
                   forkRet, uiOpen, targetPid, statusFile>>
    /\ UNCHANGED ctlOnly

\* key Q, Escape or Ctrl+D: showUI returns, its locals are gone, and main
\* returns 0
UiQuit ==
    /\ uiOpen
    /\ uiOpen' = FALSE
    /\ targetPid' = -1
    /\ currentStatus' = NoStatus
    /\ uiMessage' = <<>>
    /\ uiSent' = {}
    /\ exitCode' = 0
    /\ UNCHANGED <<pidFile, procs, nextPid, argv, cmdSeq, sigSent, forkRet, statusFile>>
    /\ UNCHANGED ctlOnly

\* ---- the controller processes
\* a controller writes the status file: updateStatusFile with its pid, its
\* inhibitorsActive and a message
ControllerPublishes ==
    \E p \in procs, active \in BOOLEAN :
        /\ statusFile' = [exists |-> TRUE, pid |-> p,
                          active |-> IF active THEN 1 ELSE 0,
                          debug |-> 0,
                          message |-> sanitizeStatusMessage(
                                        IF active THEN MsgActive ELSE MsgReleasedByUser)]
        /\ statusFile' # statusFile
        /\ UNCHANGED cliVars
        /\ UNCHANGED ctlOnly

\* a controller process ends: runInhibitorLoop returned after a termination
\* signal, or the default action of a signal ended it
ControllerEnds ==
    \E p \in procs :
        /\ procs' = procs \ {p}
        /\ UNCHANGED <<pidFile, nextPid, argv, cmdSeq, exitCode, sigSent,
                       forkRet, uiOpen, targetPid, currentStatus, uiMessage, uiSent,
                       statusFile>>
        /\ UNCHANGED ctlOnly

\* the variables of the inside of a controller before runInhibitorLoop
CtlAtStart ==
    /\ bothPending = FALSE
    /\ pc = "run"
    /\ acqCaller = "initial"
    /\ inhibitorHandles = [sessionConnection |-> FALSE, systemConnection |-> FALSE,
                           screenSaverCookie |-> 0, idleFd |-> -1, sleepFd |-> -1]
    /\ debugLoggingEnabled = FALSE
    /\ inhibitorsActive = FALSE
    /\ terminationRequested = 0
    /\ acquireRequested = 0
    /\ releaseRequested = 0
    /\ lastQbusError = MsgNone
    /\ screen = FALSE /\ idle = FALSE /\ sleep = FALSE
    /\ wereActive = FALSE
    /\ handlers = {}
    /\ stdout = NoLine
    /\ heldCookies = {}
    /\ openFds = {}
    /\ granted = {}
    /\ cycleDone = FALSE
    /\ cleanedSince = FALSE
    /\ branch = "none"
    /\ branchDone = FALSE
    /\ pubs = 0
    /\ busCalls = 0
    /\ unInhibited = {}
    /\ closedFds = {}
    /\ doubleRelease = FALSE
    /\ termDelivered = FALSE
    /\ killedBy = "none"
    /\ sigArg = "none"

\* no controller runs, there is no PID file and no status file
CliInit ==
    /\ CtlAtStart
    /\ prior = NoPrior
    /\ statusFile = NoFile
    /\ pidFile = NoFile
    /\ procs = {}
    /\ nextPid = ControllerPid
    /\ argv = <<>>
    /\ cmdSeq = 0
    /\ exitCode = 0
    /\ sigSent = {}
    /\ forkRet = "none"
    /\ uiOpen = FALSE
    /\ targetPid = -1
    /\ currentStatus = NoStatus
    /\ uiMessage = <<>>
    /\ uiSent = {}

CliNext ==
    \/ MainUsage
    \/ MainStop
    \/ MainAttach
    \/ MainStart
    \/ UiExpose
    \/ UiRefresh
    \/ UiToggle
    \/ UiQuit
    \/ ControllerPublishes
    \/ ControllerEnds

CliSpec == CliInit /\ [][CliNext]_vars

\* ---- showUI on its own
\* the status files a controller with pid p can have written
StatusesOf(p) ==
    { [exists |-> TRUE, pid |-> p, active |-> IF active THEN 1 ELSE 0, debug |-> 0,
       message |-> sanitizeStatusMessage(IF active THEN MsgActive ELSE MsgReleasedByUser)] :
        active \in BOOLEAN }

\* showUI(targetPid) has been called, with any value of its argument, and
\* is at its event loop; the controllers that exist and the status file are
\* any that CliSpec can leave
UiInit ==
    /\ CtlAtStart
    /\ prior = NoPrior
    /\ procs \in SUBSET Pids
    /\ statusFile \in {NoFile} \cup UNION { StatusesOf(p) : p \in Pids }
    /\ pidFile \in {NoFile} \cup { [exists |-> TRUE, pid |-> p] : p \in Pids }
    /\ nextPid = ControllerPid + MaxControllers
    /\ argv = <<"attach">>
    /\ cmdSeq = 0
    /\ exitCode = 0
    /\ sigSent = {}
    /\ forkRet = "none"
    /\ uiOpen = TRUE
    /\ targetPid \in {-1, 0} \cup Pids
    /\ currentStatus = readStatus(statusFile)
    /\ uiMessage = <<>>
    /\ uiSent = {}

UiNext ==
    \/ UiExpose
    \/ UiRefresh
    \/ UiToggle
    \/ UiQuit
    \/ ControllerPublishes
    \/ ControllerEnds

UiSpec == UiInit /\ [][UiNext]_vars

\* ---- "caffeine8 start" while a controller runs
\* the status file as the earlier controller publishes it
PriorStatus(active, message) ==
    [exists |-> TRUE, pid |-> PriorPid, active |-> IF active THEN 1 ELSE 0,
     debug |-> 0, message |-> sanitizeStatusMessage(message)]

\* A controller of pid PriorPid, started without --debug, is in its polling
\* loop, ACTIVE or INACTIVE after a release; the PID file names it and the
\* status file is its last publication.  No command has run yet.
StartInit ==
    /\ CtlAtStart
    /\ \E a \in BOOLEAN :
         /\ prior = [pc |-> "loop", inhibitorsActive |-> a,
                     lastQbusError |-> IF a THEN MsgActive ELSE MsgReleasedByUser]
         /\ statusFile = PriorStatus(a, prior.lastQbusError)
    /\ pidFile = [exists |-> TRUE, pid |-> PriorPid]
    /\ procs = {PriorPid}
    /\ nextPid = ControllerPid
    /\ argv = <<>>
    /\ cmdSeq = 0
    /\ exitCode = 0
    /\ sigSent = {}
    /\ forkRet = "none"
    /\ uiOpen = FALSE
    /\ targetPid = -1
    /\ currentStatus = NoStatus
    /\ uiMessage = <<>>
    /\ uiSent = {}

\* main with the command start and no --debug, run once
StartIssued ==
    /\ cmdSeq = 0
    /\ MainStart
    /\ argv' \in {<<>>, <<"start">>}

\* the child of the fork calls runInhibitorLoop
ChildRuns ==
    /\ ControllerPid \in procs
    /\ RunInhibitorLoop

\* the earlier controller has received SIGTERM, its loop test has seen
\* terminationRequested, and cleanupInhibitors has run: updateStatusFile
\* with inhibitorsActive false and lastQbusError as it was
PriorTerminate ==
    /\ prior.pc = "loop"
    /\ <<PriorPid, "SIGTERM">> \in sigSent
    /\ statusFile' = PriorStatus(FALSE, prior.lastQbusError)
    /\ prior' = [prior EXCEPT !.pc = "termMsg"]
    /\ UNCHANGED <<pidFile, procs, nextPid, argv, cmdSeq, exitCode, sigSent,
                   forkRet, uiOpen, targetPid, currentStatus, uiMessage, uiSent>>
    /\ UNCHANGED ctlInner

\* if (wereActive) setStatusMessage("Inhibitors released (process exiting).");
\* runInhibitorLoop returns and the process ends
PriorTerminateMessage ==
    /\ prior.pc = "termMsg"
    /\ IF prior.inhibitorsActive
       THEN statusFile' = PriorStatus(FALSE, MsgReleasedExiting)
       ELSE UNCHANGED statusFile
    /\ prior' = [pc |-> "exited", inhibitorsActive |-> FALSE,
                 lastQbusError |-> IF prior.inhibitorsActive THEN MsgReleasedExiting
                                                             ELSE prior.lastQbusError]
    /\ procs' = procs \ {PriorPid}
    /\ UNCHANGED <<pidFile, nextPid, argv, cmdSeq, exitCode, sigSent,
                   forkRet, uiOpen, targetPid, currentStatus, uiMessage, uiSent>>
    /\ UNCHANGED ctlInner

\* the new controller up to its polling loop, with no signal sent to it
StartNext ==
    \/ StartIssued
    \/ ChildRuns
    \/ AcquireScreen
    \/ AcquireIdle
    \/ AcquireSleep
    \/ AcquireFinish
    \/ InstallHandler
    \/ LoopTest
    \/ AcquireSkip
    \/ ReleaseSkip
    \/ Sleep
    \/ PriorTerminate
    \/ PriorTerminateMessage

StartSpec == StartInit /\ [][StartNext]_vars

\* ---- "caffeine8 attach" with no controller running: the UI and the
\* controller it launched
\* attach has forked the controller, written its pid to the PID file and
\* called showUI with that pid; the child is about to call runInhibitorLoop
ToggleInit ==
    /\ CtlAtStart
    /\ prior = NoPrior
    /\ statusFile \in {NoFile, StaleStatus}
    /\ pidFile = [exists |-> TRUE, pid |-> ControllerPid]
    /\ procs = {ControllerPid}
    /\ nextPid = ControllerPid + 1
    /\ argv = <<"attach">>
    /\ cmdSeq = 0
    /\ exitCode = 0
    /\ sigSent = {}
    /\ forkRet = "child"
    /\ uiOpen = TRUE
    /\ targetPid = ControllerPid
    /\ currentStatus = readStatus(statusFile)
    /\ uiMessage = <<>>
    /\ uiSent = {}

\* key T with the signal arriving at the controller: handleSignal runs when
\* sigaction has installed it for the signal, and the default action ends
\* the process otherwise
UiToggleSignals ==
    /\ uiOpen
    /\ targetPid = ControllerPid
    /\ LET signalToSend == IF currentStatus.active THEN "SIGUSR2" ELSE "SIGUSR1" IN
       /\ uiSent' = uiSent \cup {<<targetPid, signalToSend>>}
       /\ IF ProcessExists(targetPid)
          THEN /\ uiMessage' = IF currentStatus.active
                               THEN <<"Toggle requested: release inhibitors.">>
                               ELSE <<"Toggle requested: acquire inhibitors.">>
               /\ currentStatus' = readStatus(statusFile)
               /\ IF signalToSend \in handlers
                  THEN /\ handleSignal(signalToSend)
                       /\ UNCHANGED <<pc, killedBy, procs>>
                  ELSE /\ pc' = "killed"
                       /\ killedBy' = signalToSend
                       /\ procs' = procs \ {targetPid}
                       /\ UNCHANGED <<terminationRequested, acquireRequested,
                                      releaseRequested>>
          ELSE /\ uiMessage' = <<"Failed to signal caffeine8 process.">>
               /\ UNCHANGED <<currentStatus, pc, killedBy, procs, terminationRequested,
                              acquireRequested, releaseRequested>>
    /\ UNCHANGED <<pidFile, nextPid, argv, cmdSeq, exitCode, sigSent,
                   forkRet, uiOpen, targetPid, prior>>
    /\ UNCHANGED <<acqCaller, screen, idle, sleep, wereActive, handlers>>
    /\ UNCHANGED stVars
    /\ UNCHANGED <<cycleDone, branch, branchDone, termDelivered, sigArg, bothPending>>

\* the controller, and the UI as the only sender of signals; the UI reads
\* the status file again at any time (Expose) and at each toggle
ToggleNext ==
    \/ RunInhibitorLoop
    \/ AcquireScreen
    \/ AcquireIdle
    \/ AcquireSleep
    \/ AcquireFinish
    \/ InstallHandler
    \/ LoopTest
    \/ AcquireRequest
    \/ AcquireNoop
    \/ AcquireSkip
    \/ ReleaseCleanup
    \/ ReleaseMessage
    \/ ReleaseNoop
    \/ ReleaseSkip
    \/ Sleep
    \/ UiExpose
    \/ UiToggleSignals

ToggleSpec == ToggleInit /\ [][ToggleNext]_vars

\* ------------------------------------------------------------ type check
\* ------------------------------------------------- the handler on its own
\* handleSignal run as a function: from each state in which the controller
\* polls with its four handlers installed (inhibitors active after the
\* initial cycle, or released on a user request), with any values of the
\* three flags, the handler is called with each signal number.
HandlerInit ==
    /\ bothPending = FALSE
    /\ pc \in {"loopTest", "checkAcquire", "checkRelease", "sleep"}
    /\ acqCaller = "initial"
    /\ debugLoggingEnabled \in BOOLEAN
    /\ inhibitorsActive \in BOOLEAN
    /\ inhibitorHandles =
         IF inhibitorsActive
         THEN [sessionConnection |-> TRUE, systemConnection |-> TRUE,
               screenSaverCookie |-> 1, idleFd |-> 3, sleepFd |-> 4]
         ELSE [sessionConnection |-> FALSE, systemConnection |-> FALSE,
               screenSaverCookie |-> 0, idleFd |-> -1, sleepFd |-> -1]
    /\ terminationRequested \in {0, 1}
    /\ acquireRequested \in {0, 1}
    /\ releaseRequested \in {0, 1}
    /\ lastQbusError = IF inhibitorsActive THEN MsgActive ELSE MsgReleasedByUser
    /\ screen = FALSE /\ idle = FALSE /\ sleep = FALSE
    /\ wereActive = FALSE
    /\ handlers = Signals
    /\ statusFile = [exists |-> TRUE, pid |-> ControllerPid,
                     active |-> IF inhibitorsActive THEN 1 ELSE 0,
                     debug |-> IF debugLoggingEnabled THEN 1 ELSE 0,
                     message |-> sanitizeStatusMessage(lastQbusError)]
    /\ stdout = IF debugLoggingEnabled THEN lastQbusError ELSE NoLine
    /\ heldCookies = IF inhibitorsActive THEN {1} ELSE {}
    /\ openFds = IF inhibitorsActive THEN {3, 4} ELSE {}
    /\ granted = Leases
    /\ cycleDone = TRUE
    /\ cleanedSince = ~inhibitorsActive
    /\ branch = "none"
    /\ branchDone = FALSE
    /\ pubs = 0
    /\ busCalls = 0
    /\ unInhibited = {}
    /\ closedFds = {}
    /\ doubleRelease = FALSE
    /\ termDelivered = (terminationRequested = 1)
    /\ killedBy = "none"
    /\ sigArg = "none"
    /\ CliAtRest

\* one call of handleSignal(sig); sigArg records the argument
HandlerRun ==
    \E sig \in Signals :
        /\ handleSignal(sig)
        /\ sigArg' = sig
        /\ termDelivered' = (termDelivered \/ sig \in {"SIGTERM", "SIGINT"})
        /\ UNCHANGED <<pc, acqCaller, screen, idle, sleep, wereActive, handlers>>
        /\ UNCHANGED stVars
        /\ UNCHANGED <<cycleDone, branch, branchDone, killedBy, cliVars, bothPending>>

HandlerSpec == HandlerInit /\ [][HandlerRun]_vars

TypeOK ==
    /\ bothPending \in BOOLEAN
    /\ pc \in {"run", "acqScreen", "acqIdle", "acqSleep", "acqFinish", "install",
               "loopTest", "checkAcquire", "checkRelease", "relMsg", "sleep",
               "terminating", "termMsg", "exited", "killed"}
    /\ inhibitorHandles.screenSaverCookie \in 0..MaxCookie
    /\ inhibitorHandles.idleFd \in {-1} \cup FdRange
    /\ inhibitorHandles.sleepFd \in {-1} \cup FdRange
    /\ inhibitorsActive \in BOOLEAN
    /\ terminationRequested \in {0, 1}
    /\ acquireRequested \in {0, 1}
    /\ releaseRequested \in {0, 1}
    /\ handlers \subseteq Signals
    /\ heldCookies \subseteq CookieRange
    /\ openFds \subseteq FdRange
    /\ pubs \in 0..8

\* ================================================================ claims
B2I(b) == IF b THEN 1 ELSE 0

\* the controller is at a polling point of the loop
PollPoints == {"loopTest", "sleep"}

CookieHeld == inhibitorHandles.screenSaverCookie # 0
                /\ inhibitorHandles.screenSaverCookie \in heldCookies
IdleHeld == inhibitorHandles.idleFd >= 0 /\ inhibitorHandles.idleFd \in openFds
SleepHeld == inhibitorHandles.sleepFd >= 0 /\ inhibitorHandles.sleepFd \in openFds
AllHeld == CookieHeld /\ IdleHeld /\ SleepHeld
NoneRecorded == /\ inhibitorHandles.screenSaverCookie = 0
                /\ inhibitorHandles.idleFd = -1
                /\ inhibitorHandles.sleepFd = -1

\* the status file as a publication of the current state would write it
CurrentStatus == [exists |-> TRUE, pid |-> ControllerPid,
                  active |-> B2I(inhibitorsActive),
                  debug |-> B2I(debugLoggingEnabled),
                  message |-> sanitizeStatusMessage(lastQbusError)]

\* the step of the loop that processes an acquire request while active
AcquireNoopStep ==
    /\ pc = "checkAcquire" /\ acquireRequested = 1 /\ inhibitorsActive
    /\ pc' = "checkRelease"

\* the step of the loop that processes a release request while inactive
ReleaseNoopStep ==
    /\ pc = "checkRelease" /\ releaseRequested = 1 /\ ~inhibitorsActive
    /\ pc' = "sleep"

\* the step of the loop that processes a release request while active
ReleaseStep ==
    /\ pc = "checkRelease" /\ releaseRequested = 1 /\ inhibitorsActive
    /\ pc' = "relMsg"

\* C1: in every state, inhibitorsActive is true exactly when the most recent
\* acquireInhibitors call has returned, each of the three leases was granted
\* in it, and cleanupInhibitors has not run since.
C1_ActiveIffLastAcquireSucceeded ==
    inhibitorsActive <=> (cycleDone /\ granted = Leases /\ ~cleanedSince)

\* an acquire request from the loop (after a release or a failure) succeeded
C1_Witness ==
    /\ pc = "checkRelease" /\ branch = "acquire" /\ branchDone
    /\ inhibitorsActive /\ granted = Leases

\* C2 (as claimed): at each polling point inhibitorsActive is true if and
\* only if the cookie, idleFd and sleepFd are all held.
C2_ActiveIffAllHeld ==
    pc \in PollPoints => (inhibitorsActive <=> AllHeld)

\* C2 (amended): in every state, inhibitorsActive implies that the cookie,
\* idleFd and sleepFd are all held; the converse does not hold.
C2_ActiveImpliesAllHeld ==
    inhibitorsActive => AllHeld

C2_Witness ==
    pc \in PollPoints /\ inhibitorsActive /\ AllHeld

\* C3 (as claimed): once a termination signal has been delivered and the
\* process has ended, no lease handle is recorded any more and the status
\* file is the final publication of this controller, with active=0, written
\* by the termination path.
C3_TerminationReleasesAndPublishes ==
    (termDelivered /\ pc \in Ended) =>
        /\ pc = "exited"
        /\ branch = "terminate" /\ branchDone
        /\ NoneRecorded
        /\ statusFile.exists /\ statusFile.pid = ControllerPid /\ statusFile.active = 0

\* C4 (as claimed): the process does not end unless a termination signal
\* was delivered (no SIGUSR1, no SIGUSR2 and no lease failure ends it), and
\* when it returns from runInhibitorLoop it has observed terminationRequested
\* and run cleanupInhibitors.
C4_EndsOnlyThroughTermination ==
    pc \in Ended =>
        /\ termDelivered
        /\ pc = "exited" =>
              /\ terminationRequested = 1
              /\ branch = "terminate" /\ branchDone /\ cleanedSince

\* C5: the step that processes a release request while inhibitorsActive is
\* true issues UnInhibit for the recorded cookie, closes idleFd and sleepFd,
\* clears the three handles and inhibitorsActive; and when the request is
\* done the status file has active=0 and the message "Inhibitors released by
\* user request."
C5_ReleaseFromActive ==
    /\ [][ReleaseStep =>
            /\ unInhibited' = {inhibitorHandles.screenSaverCookie}
            /\ closedFds' = {inhibitorHandles.idleFd, inhibitorHandles.sleepFd}
            /\ openFds' = openFds \ {inhibitorHandles.idleFd, inhibitorHandles.sleepFd}
            /\ NoneRecorded'
            /\ ~inhibitorsActive']_vars
    /\ []((branch = "release" /\ branchDone) =>
            /\ ~inhibitorsActive
            /\ NoneRecorded
            /\ lastQbusError = MsgReleasedByUser
            /\ statusFile = [exists |-> TRUE, pid |-> ControllerPid, active |-> 0,
                             debug |-> B2I(debugLoggingEnabled),
                             message |-> MsgReleasedByUser])

C5_Witness ==
    pc = "sleep" /\ branch = "release" /\ branchDone /\ Cardinality(closedFds) = 2

\* C6: the step that processes a release request while inhibitorsActive is
\* false leaves inhibitorsActive, the five fields of inhibitorHandles, the
\* service's cookies and the open descriptors unchanged and makes no lease
\* call, and publishes the message "Inhibitors already inactive."; taken in a
\* state that such a step left, it changes neither the in-memory state nor
\* the status file.
C6_ReleaseWhileInactive ==
    [][ReleaseNoopStep =>
          /\ inhibitorsActive' = inhibitorsActive
          /\ inhibitorHandles' = inhibitorHandles
          /\ heldCookies' = heldCookies /\ openFds' = openFds
          /\ busCalls' = 0
          /\ lastQbusError' = MsgAlreadyInactive
          /\ pubs' = 1
          /\ statusFile' = [exists |-> TRUE, pid |-> ControllerPid, active |-> 0,
                            debug |-> B2I(debugLoggingEnabled),
                            message |-> MsgAlreadyInactive]
          /\ (lastQbusError = MsgAlreadyInactive /\ statusFile = CurrentStatus)
                => (lastQbusError' = lastQbusError /\ statusFile' = statusFile)]_vars

\* a release request was processed while inactive, with handles kept from a
\* partial acquisition
C6_Witness ==
    /\ pc = "sleep" /\ branch = "releaseNoop" /\ branchDone
    /\ inhibitorHandles.screenSaverCookie # 0 /\ inhibitorHandles.sleepFd >= 0
    /\ inhibitorHandles.idleFd = -1

\* C7: the step that processes an acquire request while inhibitorsActive is
\* true makes no lease call, leaves inhibitorsActive, inhibitorHandles, the
\* service's cookies and the open descriptors unchanged, and writes the
\* status file once.
C7_AcquireWhileActive ==
    [][AcquireNoopStep =>
          /\ busCalls' = 0
          /\ inhibitorsActive' = inhibitorsActive
          /\ inhibitorHandles' = inhibitorHandles
          /\ heldCookies' = heldCookies /\ openFds' = openFds
          /\ pubs' = 1
          /\ statusFile' = CurrentStatus']_vars

C7_Witness ==
    pc = "checkRelease" /\ branch = "acquireNoop" /\ branchDone /\ pubs = 1

\* C8 (as claimed): after an acquire request was processed while active,
\* lastQbusError and the message of the status file are the already-active
\* message, with debug mode on or off.
C8_AlreadyActiveIsStatusMessage ==
    (branch = "acquireNoop" /\ branchDone) =>
        /\ lastQbusError = LogAlreadyActive
        /\ statusFile.exists /\ statusFile.message = LogAlreadyActive

\* C8 (amended): the step that processes an acquire request while active
\* leaves lastQbusError unchanged, so that the republished message stays
\* "Inhibitors active (screen saver, idle, sleep)."; the already-active
\* message goes to the debug log only, and only when debug mode is on.
C8_AlreadyActiveIsOnlyLogged ==
    [][AcquireNoopStep =>
          /\ lastQbusError' = lastQbusError
          /\ lastQbusError' = MsgActive
          /\ statusFile'.exists /\ statusFile'.message = MsgActive
          /\ stdout' = IF debugLoggingEnabled THEN LogAlreadyActive ELSE stdout]_vars

C8_Witness ==
    /\ pc = "checkRelease" /\ branch = "acquireNoop" /\ branchDone
    /\ ~debugLoggingEnabled /\ statusFile.message = MsgActive

\* C9: whenever a transition is complete the status file is one this
\* controller wrote and its active field equals inhibitorsActive; and in
\* every state a status file written by this controller has the active
\* value of inhibitorsActive, so no step writes the file and changes
\* inhibitorsActive afterwards.
C9_StatusMatchesMemory ==
    /\ branchDone =>
          /\ statusFile.exists /\ statusFile.pid = ControllerPid
          /\ statusFile.active = B2I(inhibitorsActive)
    /\ (statusFile.exists /\ statusFile.pid = ControllerPid) =>
          statusFile.active = B2I(inhibitorsActive)

\* a release from ACTIVE is complete: the file went from active=1 to active=0
C9_Witness ==
    /\ branch = "release" /\ branchDone
    /\ statusFile.exists /\ statusFile.active = 0 /\ ~inhibitorsActive

\* C10: every completed transition (initial acquisition, acquire request,
\* already-active no-op, release, already-inactive no-op, termination) has
\* written the status file at least once by the time it is complete, which
\* is before the loop tests a request flag again.
C10_EveryTransitionPublishes ==
    branchDone =>
        /\ branch \in {"initial", "acquire", "acquireNoop", "release", "releaseNoop",
                       "terminate"}
        /\ pubs >= 1
        /\ statusFile = CurrentStatus

\* termination from INACTIVE is complete: its only publication is the one
\* of cleanupInhibitors
C10_Witness ==
    pc = "exited" /\ branch = "terminate" /\ branchDone /\ ~wereActive /\ pubs = 1

\* an acquisition cycle (the initial one or one from the loop) is complete
CycleComplete == branchDone /\ branch \in {"initial", "acquire"}

\* C11: whenever an acquisition cycle, the initial one or a re-acquisition,
\* is complete and all three leases were granted in it, inhibitorsActive is
\* true and the status file has active=1 and the message "Inhibitors active
\* (screen saver, idle, sleep)."
C11_FullAcquisitionIsActive ==
    (CycleComplete /\ granted = Leases) =>
        /\ inhibitorsActive
        /\ lastQbusError = MsgActive
        /\ statusFile = [exists |-> TRUE, pid |-> ControllerPid, active |-> 1,
                         debug |-> B2I(debugLoggingEnabled), message |-> MsgActive]

\* a re-acquisition that follows a failed cycle succeeded
C11_Witness ==
    /\ CycleComplete /\ branch = "acquire" /\ granted = Leases
    /\ statusFile.exists /\ statusFile.active = 1

\* the status messages acquireScreenSaverInhibitor sets when it fails
ScreenFailureMessages ==
    { <<"Failed to connect to ", "session", " bus: ">> \o err : err \in ErrTexts }
    \cup { <<"Failed to obtain ", "session", " DBus connection (nullptr).">>,
           <<"Failed to create DBus message for ScreenSaver.Inhibit.">>,
           <<"ScreenSaver.Inhibit returned null reply.">> }
    \cup { <<"ScreenSaver.Inhibit failed: ">> \o err : err \in ErrTexts }
    \cup { <<"Unable to parse ScreenSaver.Inhibit reply: ">> \o err : err \in ErrTexts }

\* C12: whenever an acquisition cycle is complete in which the screen-saver
\* lease was not granted and both system leases were, inhibitorsActive is
\* false, lastQbusError is the message of the screen-saver failure and the
\* status file carries it with active=0.
C12_ScreenFailureIsReported ==
    (CycleComplete /\ granted = {"idle", "sleep"}) =>
        /\ ~inhibitorsActive
        /\ lastQbusError \in ScreenFailureMessages
        /\ statusFile = CurrentStatus
        /\ statusFile.active = 0

\* the initial cycle failed on an unparsable ScreenSaver.Inhibit reply only
C12_Witness ==
    /\ CycleComplete /\ branch = "initial" /\ granted = {"idle", "sleep"}
    /\ lastQbusError \in { <<"Unable to parse ScreenSaver.Inhibit reply: ">> \o err :
                             err \in ErrTexts }

\* C13: when termination is processed with inhibitorsActive false,
\* cleanupInhibitors runs (it releases what a partial acquisition left and
\* writes the status file once) and lastQbusError keeps its value up to the
\* exit: the final message is not "Inhibitors released (process exiting)."
C13_TerminationWhileInactive ==
    /\ [][(pc = "terminating" /\ ~inhibitorsActive /\ pc' = "termMsg") =>
            /\ cleanedSince'
            /\ NoneRecorded'
            /\ openFds' = openFds \ {inhibitorHandles.idleFd, inhibitorHandles.sleepFd}
            /\ pubs' = 1
            /\ lastQbusError' = lastQbusError
            /\ statusFile' = CurrentStatus']_vars
    /\ [][(pc = "termMsg" /\ ~wereActive /\ pc' = "exited") =>
            /\ lastQbusError' = lastQbusError
            /\ statusFile' = statusFile]_vars
    /\ []((pc = "exited" /\ ~wereActive) =>
            /\ lastQbusError # MsgReleasedExiting
            /\ statusFile.exists /\ statusFile.message # MsgReleasedExiting)

\* the controller exited from INACTIVE and its cleanup released a cookie and
\* a descriptor kept from a partial acquisition
C13_Witness ==
    /\ pc = "exited" /\ ~wereActive
    /\ unInhibited # {} /\ closedFds # {}

\* C14 (as claimed): a cycle that did not obtain all three leases leaves
\* inhibitorsActive false, and while inhibitorsActive is false every recorded
\* handle stays recorded, through release and acquire requests, until
\* cleanupInhibitors runs (at termination; the release branch runs it only
\* when active).
C14_PartialHandlesStayRecorded ==
    /\ []((cycleDone /\ granted # Leases) => ~inhibitorsActive)
    /\ [][(~inhibitorsActive /\ pc # "terminating" /\ pc' # "killed") =>
            /\ inhibitorHandles.screenSaverCookie # 0 =>
                 inhibitorHandles'.screenSaverCookie = inhibitorHandles.screenSaverCookie
            /\ inhibitorHandles.idleFd >= 0 =>
                 inhibitorHandles'.idleFd = inhibitorHandles.idleFd
            /\ inhibitorHandles.sleepFd >= 0 =>
                 inhibitorHandles'.sleepFd = inhibitorHandles.sleepFd]_vars

\* a step that runs cleanupInhibitors
CleanupStep ==
    \/ pc = "terminating" /\ pc' = "termMsg"
    \/ ReleaseStep

\* C15: no descriptor is closed that is not open and no UnInhibit is issued
\* for a cookie the service does not hold; and cleanupInhibitors issues
\* UnInhibit only for a recorded cookie and closes exactly the recorded
\* descriptors, so that on released handles it makes no call at all.
C15_ReleaseIsIdempotent ==
    /\ [](~doubleRelease)
    /\ [][CleanupStep =>
            /\ inhibitorHandles.screenSaverCookie = 0 => unInhibited' = {}
            /\ closedFds' = {inhibitorHandles.idleFd, inhibitorHandles.sleepFd} \ {-1}
            /\ NoneRecorded => (busCalls' = 0 /\ heldCookies' = heldCookies
                                              /\ openFds' = openFds)]_vars

\* the leases were released on a user request, and the cleanup of the
\* termination that followed made no call
C15_Witness ==
    /\ pc = "exited" /\ branch = "terminate"
    /\ lastQbusError = MsgReleasedByUser
    /\ busCalls = 0 /\ closedFds = {} /\ unInhibited = {}

\* C16 (as claimed): once termination has been requested and the controller
\* has stopped, it stopped by returning from runInhibitorLoop after
\* cleanupInhibitors: the cookie is cleared, both descriptors are closed and
\* inhibitorsActive is false.
C16_TerminationRunsCleanup ==
    (terminationRequested = 1 /\ pc \in Ended) =>
        /\ pc = "exited"
        /\ cleanedSince
        /\ NoneRecorded
        /\ openFds = {}
        /\ ~inhibitorsActive

\* the status messages acquireLogin1Inhibitor sets when it fails
Login1FailureMessages(what) ==
    { <<"Failed to connect to ", "system", " bus: ">> \o err : err \in ErrTexts }
    \cup { <<"Failed to obtain ", "system", " DBus connection (nullptr).">>,
           <<"Failed to create DBus message for login1.Inhibit ", what, ".">>,
           <<"login1.Inhibit(", what, ") returned null reply.">>,
           <<"login1.Inhibit(", what, ") reply has no arguments.">>,
           <<"login1.Inhibit(", what, ") reply is not a UNIX FD.">> }
    \cup { <<"login1.Inhibit(", what, ") failed: ">> \o err : err \in ErrTexts }

\* what a failed lease call leaves behind: its message in lastQbusError and
\* in the status file, written in that call
FailurePublished(messages) ==
    /\ lastQbusError' \in messages
    /\ statusFile' = CurrentStatus'
    /\ statusFile'.message = sanitizeStatusMessage(lastQbusError')
    /\ pubs' = pubs + 1

\* C17: a lease call that fails, for any of its failure kinds, sets
\* lastQbusError to the message of that failure and publishes it, leaves the
\* handle of that lease as it was, and the controller goes on with the next
\* step of the cycle; when the cycle is over the controller is in the
\* polling loop (or installing its handlers on the way to it), not stopped.
C17_AcquisitionFailureIsNotFatal ==
    /\ [][(pc = "acqScreen" /\ pc' \notin {pc, "killed"} /\ ~screen') =>
            /\ FailurePublished(ScreenFailureMessages)
            /\ inhibitorHandles'.screenSaverCookie = inhibitorHandles.screenSaverCookie
            /\ pc' = "acqIdle"]_vars
    /\ [][(pc = "acqIdle" /\ pc' \notin {pc, "killed"} /\ ~idle') =>
            /\ FailurePublished(Login1FailureMessages("idle"))
            /\ inhibitorHandles'.idleFd = inhibitorHandles.idleFd
            /\ pc' = "acqSleep"]_vars
    /\ [][(pc = "acqSleep" /\ pc' \notin {pc, "killed"} /\ ~sleep') =>
            /\ FailurePublished(Login1FailureMessages("sleep"))
            /\ inhibitorHandles'.sleepFd = inhibitorHandles.sleepFd
            /\ pc' = "acqFinish"]_vars
    /\ [][(pc = "acqFinish" /\ pc' \notin {pc, "killed"}) =>
            pc' \in {"install", "checkRelease"}]_vars

\* the initial cycle failed and the controller, in its polling loop, served
\* an acquire request whose cycle failed on the sleep lease while the idle
\* descriptor of the first cycle stayed recorded
C17_Witness ==
    /\ pc = "checkRelease" /\ branch = "acquire" /\ branchDone
    /\ ~inhibitorsActive
    /\ granted = {"screen", "idle"}
    /\ lastQbusError \in Login1FailureMessages("sleep")
    /\ inhibitorHandles.sleepFd >= 0

\* C18: a call of handleSignal sets terminationRequested for SIGTERM and for
\* SIGINT, acquireRequested for SIGUSR1 and releaseRequested for SIGUSR2,
\* leaves the other two flags as they were, and changes nothing else:
\* inhibitorsActive, the lease handles, lastQbusError, the status file, the
\* log and the position of the main loop are unchanged and no bus call, no
\* close and no publication is made in it.
C18_HandlerSetsOnlyItsFlag ==
    [][ /\ sigArg' \in Signals
        /\ sigArg' \in {"SIGTERM", "SIGINT"} =>
              /\ terminationRequested' = 1
              /\ UNCHANGED <<acquireRequested, releaseRequested>>
        /\ sigArg' = "SIGUSR1" =>
              /\ acquireRequested' = 1
              /\ UNCHANGED <<terminationRequested, releaseRequested>>
        /\ sigArg' = "SIGUSR2" =>
              /\ releaseRequested' = 1
              /\ UNCHANGED <<terminationRequested, acquireRequested>>
        /\ UNCHANGED <<inhibitorsActive, inhibitorHandles, lastQbusError, statusFile,
                       stdout, debugLoggingEnabled, pc, handlers>>
        /\ UNCHANGED <<heldCookies, openFds, busCalls, pubs, unInhibited, closedFds>>
      ]_vars

\* the handler ran for SIGUSR1 while the inhibitors were active and no other
\* request was pending
C18_Witness ==
    /\ sigArg = "SIGUSR1" /\ acquireRequested = 1
    /\ terminationRequested = 0 /\ releaseRequested = 0
    /\ inhibitorsActive /\ inhibitorHandles.screenSaverCookie = 1

\* the same state in the other debug mode
OtherMode(s) == [s EXCEPT !.debugLoggingEnabled = ~@]

\* a state without what debug mode is allowed to change: the flag itself,
\* the diagnostic log and the debug field of the status file
NoDebug(s) ==
    [s EXCEPT !.debugLoggingEnabled = FALSE,
              !.stdout = NoLine,
              !.statusFile = IF @.exists THEN [@ EXCEPT !.debug = 0] ELSE @]

\* two results [s, ret] of a lease call agree but for debug mode
SameCall(a, b) == a.ret = b.ret /\ NoDebug(a.s) = NoDebug(b.s)

\* the messages the loop itself logs or publishes
LoopTexts == {MsgActive, MsgReleasedByUser, MsgAlreadyInactive, MsgReleasedExiting,
              LogAlreadyActive}

\* C19: in every state the controller reaches, each operation it can run
\* next, run on that state and on the same state in the other debug mode with the same
\* answers of the services, returns the same result and leaves states that
\* are equal in inhibitorsActive, lease handles, lastQbusError and the pid,
\* active and message fields of the status file, and differ only in the
\* debug flag, the debug field and the log; the answers offered by the
\* services do not depend on the mode either.  (The tests of the loop read
\* the three flags and inhibitorsActive only, so two runs with the same
\* signals and answers stay equal in this sense step after step.)
C19_DebugModeChangesOnlyTheLog ==
    LET t == OtherMode(St) IN
    /\ NoDebug(t) = NoDebug(St)
    /\ NoDebug(updateStatusFile(t)) = NoDebug(updateStatusFile(St))
    /\ pc \in {"checkAcquire", "checkRelease", "relMsg", "terminating", "termMsg"} =>
         \A m \in LoopTexts :
            /\ NoDebug(logDebug(t, m)) = NoDebug(logDebug(St, m))
            /\ NoDebug(setStatusMessage(t, m)) = NoDebug(setStatusMessage(St, m))
    /\ pc = "acqScreen" =>
         /\ \A c \in ConnOutcomes, err \in ErrTexts :
              SameCall(getConnection(t, "session", c, err),
                       getConnection(St, "session", c, err))
         /\ ScreenEnv(t) = ScreenEnv(St)
         /\ \A e \in ScreenEnv(St) :
              SameCall(acquireScreenSaverInhibitor(t, e), acquireScreenSaverInhibitor(St, e))
    /\ pc \in {"acqIdle", "acqSleep"} =>
         /\ \A c \in ConnOutcomes, err \in ErrTexts :
              SameCall(getConnection(t, "system", c, err),
                       getConnection(St, "system", c, err))
         /\ Login1Env(t) = Login1Env(St)
         /\ \A e \in Login1Env(St), what \in {"idle", "sleep"} :
              SameCall(acquireLogin1Inhibitor(t, what, e),
                       acquireLogin1Inhibitor(St, what, e))
    /\ pc = "acqFinish" =>
         \A scr, idl, slp \in BOOLEAN :
            SameCall(acquireInhibitorsResult(t, scr, idl, slp),
                     acquireInhibitorsResult(St, scr, idl, slp))
    /\ pc \in {"checkRelease", "terminating"} =>
         /\ \A r \in ReleaseEnv :
              /\ NoDebug(releaseScreenSaverInhibitor(t, r))
                   = NoDebug(releaseScreenSaverInhibitor(St, r))
              /\ NoDebug(cleanupInhibitors(t, r)) = NoDebug(cleanupInhibitors(St, r))
         /\ \A what \in {"idle", "sleep"} :
              NoDebug(releaseLogin1Fd(t, what)) = NoDebug(releaseLogin1Fd(St, what))

\* a debug run in which an acquire request arrived while active: the line
\* "Acquire request ignored; ..." is in the log and the status file has
\* debug=1, which a run without debug mode does not have
C19_Witness ==
    /\ debugLoggingEnabled
    /\ branch = "acquireNoop" /\ branchDone
    /\ stdout = LogAlreadyActive
    /\ statusFile.exists /\ statusFile.debug = 1

\* the positions of the line ends of a text
LineEnds(txt) == SelectSeq([i \in 1..Len(txt) |-> i], LAMBDA i : txt[i] = "\n")

\* C20: the file a publication of this controller leaves holds nothing but
\* that publication: four lines that start with pid=, active=, debug= and
\* message=, with active and debug 0 or 1; there is no carriage return and
\* no fifth line in it; and its message is lastQbusError with each "\n" and
\* each "\r" replaced by a space and every other piece unchanged.
C20_StatusFileIsFourLines ==
    (statusFile.exists /\ statusFile.pid = ControllerPid) =>
        LET txt == StatusFileText(statusFile)
            ends == LineEnds(txt)
            msg == statusFile.message
        IN
        /\ statusFile = CurrentStatus
        /\ Len(ends) = 4
        /\ ends[4] = Len(txt)
        /\ txt[1] = "pid="
        /\ txt[ends[1] + 1] = "active=" /\ txt[ends[1] + 2] \in {"0", "1"}
        /\ ends[2] = ends[1] + 3
        /\ txt[ends[2] + 1] = "debug=" /\ txt[ends[2] + 2] \in {"0", "1"}
        /\ ends[3] = ends[2] + 3
        /\ txt[ends[3] + 1] = "message="
        /\ \A i \in 1..Len(txt) : txt[i] # "\r"
        /\ Len(msg) = Len(lastQbusError)
        /\ \A i \in 1..Len(msg) :
             msg[i] = IF lastQbusError[i] \in {"\n", "\r"} THEN " " ELSE lastQbusError[i]

\* a message with the error text of the bus library, which has a line
\* break and a carriage return in it, was published
C20_Witness ==
    /\ statusFile.exists /\ statusFile.pid = ControllerPid
    /\ \E i \in 1..Len(lastQbusError) :
         lastQbusError[i] = "\r" /\ statusFile.message[i] = " "
    /\ \E i \in 1..Len(lastQbusError) :
         lastQbusError[i] = "\n" /\ statusFile.message[i] = " "

\* ---------------------------------------------- claims on the command line
\* a step in which main runs
CommandRun == cmdSeq' # cmdSeq

\* the words of a command line that are not "--debug"
CommandWords(args) == SelectSeq(args, LAMBDA a : a # "--debug")

\* the PID file names a process that exists
RunningInstance == pidFile.exists /\ pidFile.pid \in procs

\* C21: a run of main with the command stop, when the PID file names a
\* process that exists, sends SIGTERM to that pid, removes the PID file and
\* returns 0; with no such instance it sends no signal and returns 0.  A run
\* with more than one command word, or with one word that is not start,
\* stop or attach, returns 1 and does nothing.  A run of start or attach in
\* which fork fails returns 1, launches nothing and opens no UI.
C21_StopAndExitCodes ==
    [][CommandRun =>
        LET words == CommandWords(argv') IN
        /\ (words = <<"stop">> /\ RunningInstance) =>
              /\ sigSent' = {<<pidFile.pid, "SIGTERM">>}
              /\ pidFile' = NoFile
              /\ exitCode' = 0
        /\ (words = <<"stop">> /\ ~RunningInstance) =>
              /\ sigSent' = {}
              /\ exitCode' = 0
        /\ (Len(words) > 1 \/ (Len(words) = 1 /\ words[1] \notin {"start", "stop", "attach"})) =>
              /\ exitCode' = 1
              /\ sigSent' = {} /\ forkRet' = "none"
              /\ UNCHANGED <<pidFile, procs, uiOpen>>
        /\ forkRet' = "failed" =>
              /\ words \in {<<>>, <<"start">>, <<"attach">>}
              /\ exitCode' = 1
              /\ UNCHANGED <<pidFile, procs, uiOpen>>
      ]_vars

\* stop was run on a running controller: the signal went to it, the PID
\* file is gone
C21_Witness ==
    /\ CommandWords(argv) = <<"stop">>
    /\ sigSent # {} /\ \A s \in sigSent : s[1] \in procs /\ s[2] = "SIGTERM"
    /\ ~pidFile.exists
    /\ exitCode = 0

\* C22: checkExistingInstance returns true exactly when the PID file exists
\* and the pid in it is that of a process that exists; and a run of stop,
\* start or attach with the PID file missing or stale acts as with no
\* instance: it sends no signal, stop leaves everything as it is, and start
\* and attach go on to fork.
C22_StaleOrMissingPidFileIsNoInstance ==
    /\ [](checkExistingInstance(-1).ret <=>
            (pidFile.exists /\ \E p \in procs : p = pidFile.pid))
    /\ []((~pidFile.exists \/ pidFile.pid \notin procs) => ~checkExistingInstance(-1).ret)
    /\ [][(CommandRun /\ ~RunningInstance
              /\ CommandWords(argv') \in {<<>>, <<"start">>, <<"stop">>, <<"attach">>}) =>
            /\ sigSent' = {}
            /\ CommandWords(argv') = <<"stop">> =>
                 (forkRet' = "none" /\ UNCHANGED <<pidFile, procs>>)
            /\ CommandWords(argv') # <<"stop">> => forkRet' \in {"failed", "child"}
          ]_vars

\* stop was run with a stale PID file: no signal was sent and the file
\* still names a process that does not exist
C22_Witness ==
    /\ CommandWords(argv) = <<"stop">>
    /\ pidFile.exists /\ pidFile.pid \notin procs
    /\ sigSent = {}
    /\ exitCode = 0

\* C23: a run of attach forks exactly when the PID file names no process
\* that exists; a child it forks is a new process whose pid it writes to
\* the PID file; the UI it opens has as targetPid the pid in the PID file,
\* which is that of a process that exists; and as long as the UI is open
\* targetPid stays the same and every kill call of the UI is made on it.
C23_AttachTargetsRegisteredController ==
    /\ [][(CommandRun /\ CommandWords(argv') = <<"attach">>) =>
            /\ forkRet' # "none" <=> ~RunningInstance
            /\ forkRet' = "child" =>
                 /\ nextPid \notin procs
                 /\ procs' = procs \cup {nextPid}
                 /\ pidFile' = [exists |-> TRUE, pid |-> nextPid]
            /\ forkRet' # "child" => UNCHANGED <<procs, pidFile>>
            /\ uiOpen' =>
                 /\ pidFile'.exists /\ targetPid' = pidFile'.pid
                 /\ targetPid' \in procs'
                 /\ uiSent' = {}
          ]_vars
    /\ [][(uiOpen /\ uiOpen') =>
            /\ targetPid' = targetPid
            /\ \A s \in uiSent' \ uiSent : s[1] = targetPid
          ]_vars
    /\ [](uiOpen => \A s \in uiSent : s[1] = targetPid)

\* attach found a running controller, launched none, and its UI has sent
\* that controller a signal
C23_Witness ==
    /\ uiOpen /\ forkRet = "none"
    /\ CommandWords(argv) = <<"attach">>
    /\ RunningInstance /\ targetPid = pidFile.pid
    /\ uiSent # {}

\* a step in which the UI does something
UiActs ==
    uiOpen /\ <<uiOpen, currentStatus, uiMessage, uiSent>>' # <<uiOpen, currentStatus, uiMessage, uiSent>>

\* C24: a step of the UI leaves the status file, the PID file, the
\* processes and the controller as they are; the only kill calls it makes
\* are of SIGUSR1 or SIGUSR2 on targetPid, at most one in a step, and none
\* when targetPid is not positive.
C24_UiOnlySignalsItsTarget ==
    /\ [][UiActs =>
            /\ UNCHANGED <<statusFile, pidFile, procs, nextPid>>
            /\ UNCHANGED ctlOnly
            /\ uiOpen' =>
                 \/ uiSent' = uiSent
                 \/ /\ targetPid > 0
                    /\ \E sig \in {"SIGUSR1", "SIGUSR2"} :
                         uiSent' = uiSent \cup {<<targetPid, sig>>}
          ]_vars
    /\ [](\A s \in uiSent : s[1] = targetPid /\ s[1] > 0 /\ s[2] \in {"SIGUSR1", "SIGUSR2"})
    /\ []((uiOpen /\ targetPid <= 0) => uiSent = {})

\* the toggle key was pressed in a UI opened with a targetPid that is not
\* positive
C24_Witness ==
    /\ uiOpen /\ targetPid <= 0
    /\ uiMessage = <<"No active caffeine8 process.">>
    /\ uiSent = {}

\* ------------------------------------------------ claims on the controller
\* C25 (as claimed): a recorded handle is replaced by another value only
\* when it has been released (UnInhibit issued for the cookie, the
\* descriptor closed), also in a re-acquisition from a state that holds
\* handles of a partial acquisition; and when the controller has returned
\* from runInhibitorLoop no inhibitor descriptor is open.
C25_NoHandleLostOrOverwritten ==
    /\ [][pc' # "killed" =>
            /\ (inhibitorHandles.screenSaverCookie # 0
                  /\ inhibitorHandles'.screenSaverCookie # inhibitorHandles.screenSaverCookie) =>
                 inhibitorHandles.screenSaverCookie \in unInhibited'
            /\ (inhibitorHandles.idleFd >= 0
                  /\ inhibitorHandles'.idleFd # inhibitorHandles.idleFd) =>
                 inhibitorHandles.idleFd \notin openFds'
            /\ (inhibitorHandles.sleepFd >= 0
                  /\ inhibitorHandles'.sleepFd # inhibitorHandles.sleepFd) =>
                 inhibitorHandles.sleepFd \notin openFds'
          ]_vars
    /\ [](pc = "exited" => openFds = {})

\* the file was written by this controller
WrittenHere == statusFile.exists /\ statusFile.pid = ControllerPid

\* C26 (as claimed): in every status file this controller has written, the
\* message is "Inhibitors active (screen saver, idle, sleep)." exactly when
\* active is 1.
C26_MessageAgreesWithActive ==
    WrittenHere => (statusFile.message = MsgActive <=> statusFile.active = 1)

\* the failure messages of a lease
FailureMessages(lease) ==
    IF lease = "screen" THEN ScreenFailureMessages ELSE Login1FailureMessages(lease)

\* the last lease, in the order screen saver, idle, sleep, that was not
\* granted in the cycle
LastFailed ==
    IF "sleep" \notin granted THEN "sleep"
    ELSE IF "idle" \notin granted THEN "idle"
    ELSE "screen"

\* C27: in an acquisition cycle the three lease calls are made in the order
\* screen saver, idle, sleep, each one whatever the earlier ones returned
\* (each makes at least one call to a bus), and when the cycle is complete
\* with a lease not granted, lastQbusError is a failure message of the last
\* lease not granted, in that order.
C27_AllThreeAttemptedInOrder ==
    /\ [][(pc = "acqScreen" /\ pc' \notin {pc, "killed"}) =>
            (pc' = "acqIdle" /\ busCalls' > busCalls)]_vars
    /\ [][(pc = "acqIdle" /\ pc' \notin {pc, "killed"}) =>
            (pc' = "acqSleep" /\ busCalls' > busCalls)]_vars
    /\ [][(pc = "acqSleep" /\ pc' \notin {pc, "killed"}) =>
            (pc' = "acqFinish" /\ busCalls' > busCalls)]_vars
    /\ [][(pc' = "acqIdle" /\ pc # pc') => pc = "acqScreen"]_vars
    /\ [][(pc' = "acqSleep" /\ pc # pc') => pc = "acqIdle"]_vars
    /\ [][(pc' = "acqFinish" /\ pc # pc') => pc = "acqSleep"]_vars
    /\ []((CycleComplete /\ granted # Leases) =>
            lastQbusError \in FailureMessages(LastFailed))

\* a cycle in which the screen-saver lease and the idle lease failed and
\* the sleep lease was granted: the message is that of the idle lease
C27_Witness ==
    /\ CycleComplete /\ granted = {"sleep"}
    /\ lastQbusError = <<"login1.Inhibit(", "idle", ") returned null reply.">>

\* the controller has left the polling loop
LoopLeft == {"terminating", "termMsg", "exited"}

\* C28 (as claimed): no acquireInhibitors call starts in a state in which
\* terminationRequested is 1.
C28_NoAcquireOnceFlagSet ==
    [][(terminationRequested = 1 /\ pc' = "acqScreen") => pc = "acqScreen"]_vars

\* C28 (amended): the loop test that finds terminationRequested = 1 leaves
\* the loop, also with an acquire request pending; after it no
\* acquireInhibitors call starts; and with the flag set no new iteration
\* begins, so a flag set after the loop test of an iteration lets at most
\* the acquisition of that iteration start.
C28_NoAcquireAfterTerminationObserved ==
    /\ [][(pc = "loopTest" /\ terminationRequested = 1 /\ pc' \notin {pc, "killed"}) =>
            pc' = "terminating"]_vars
    /\ [][(pc \in LoopLeft) => (pc' \in LoopLeft)]_vars
    /\ [][(terminationRequested = 1 /\ pc' = "checkAcquire") => pc = "checkAcquire"]_vars
    /\ [][terminationRequested = 1 => terminationRequested' = 1]_vars

\* the loop was left while inactive with an acquire request still pending
C28_Witness ==
    /\ pc = "terminating" /\ terminationRequested = 1
    /\ acquireRequested = 1 /\ ~inhibitorsActive

\* C29: when acquireRequested and releaseRequested are both 1 at the test
\* of acquireRequested, the acquire branch runs first and leaves the release
\* request pending, the release branch runs after it in the same iteration,
\* and the iteration ends (at sleep) with the release branch complete and
\* inhibitorsActive false.
C29_AcquireThenRelease ==
    /\ [][(pc = "checkAcquire" /\ acquireRequested = 1 /\ releaseRequested = 1
             /\ pc' \notin {pc, "killed"}) =>
            /\ branch' \in {"acquire", "acquireNoop"}
            /\ acquireRequested' = 0
            /\ releaseRequested' = 1]_vars
    /\ []((bothPending /\ pc \in {"acqScreen", "acqIdle", "acqSleep", "acqFinish", "checkRelease"}) =>
            (releaseRequested = 1 /\ branch \in {"acquire", "acquireNoop"}))
    /\ []((bothPending /\ pc = "checkRelease") => branchDone)
    /\ [][(pc = "checkRelease" /\ releaseRequested = 1 /\ pc' \notin {pc, "killed"}) =>
            (branch' \in {"release", "releaseNoop"} /\ ~inhibitorsActive')]_vars
    /\ []((bothPending /\ pc = "sleep") =>
            (branch \in {"release", "releaseNoop"} /\ branchDone /\ ~inhibitorsActive))

\* both requests were pending, the acquisition succeeded and the release
\* that followed it in the same iteration has released the leases
C29_Witness ==
    /\ bothPending /\ pc = "sleep"
    /\ granted = Leases /\ cleanedSince
    /\ branch = "release" /\ branchDone
    /\ ~inhibitorsActive

\* C30: with all handlers installed and termination not requested, a pending
\* acquire request leads to its flag being cleared (or to a termination
\* request), and so does a pending release request; acquireRequested is
\* cleared only by the step that enters the acquire branch and
\* releaseRequested only by the step that enters the release branch, so the
\* branch runs after every delivery that preceded it; the flags take the
\* values 0 and 1 only, and one run of the branch clears the flag whatever
\* the number of deliveries before it.
C30_NoRequestIsLost ==
    /\ (acquireRequested = 1 /\ handlers = Signals /\ terminationRequested = 0)
         ~> (acquireRequested = 0 \/ terminationRequested = 1)
    /\ (releaseRequested = 1 /\ handlers = Signals /\ terminationRequested = 0)
         ~> (releaseRequested = 0 \/ terminationRequested = 1)
    /\ [][(acquireRequested = 1 /\ acquireRequested' = 0) =>
            (pc = "checkAcquire" /\ branch' \in {"acquire", "acquireNoop"})]_vars
    /\ [][(releaseRequested = 1 /\ releaseRequested' = 0) =>
            (pc = "checkRelease" /\ branch' \in {"release", "releaseNoop"})]_vars
    /\ [](acquireRequested \in {0, 1} /\ releaseRequested \in {0, 1})

\* SIGUSR1 was delivered again during a lease call of the acquire branch,
\* after the branch had cleared the flag
C30_Witness ==
    /\ pc = "acqIdle" /\ acqCaller = "loop" /\ branch = "acquire"
    /\ acquireRequested = 1 /\ terminationRequested = 0
    /\ handlers = Signals

\* ------------------------------------------------ claims on start, the
\* status round trip, the toggle and the bus connections
\* the controller of pid ControllerPid has returned from its initial
\* acquireInhibitors
InitialAcquisitionDone ==
    /\ ControllerPid \in procs
    /\ cycleDone
    /\ pc \notin {"run", "acqScreen", "acqIdle", "acqSleep", "acqFinish"}

\* C31 (as claimed): a run of start that finds a running instance and whose
\* fork succeeds sends SIGTERM to the registered pid, adds a controller and
\* puts the new pid in the PID file; and whenever the earlier controller has
\* ended and the new one has finished its initial acquisition, the status
\* file holds the pid of the new controller and its inhibitorsActive.
C31_StatusFileIsTheNewControllers ==
    /\ [][(CommandRun /\ RunningInstance /\ forkRet' = "child") =>
            /\ sigSent' = {<<pidFile.pid, "SIGTERM">>}
            /\ procs' = procs \cup {nextPid}
            /\ pidFile' = [exists |-> TRUE, pid |-> nextPid]]_vars
    /\ []((prior.pc = "exited" /\ PriorPid \notin procs /\ InitialAcquisitionDone) =>
            /\ statusFile.exists
            /\ statusFile.pid = ControllerPid
            /\ statusFile.active = B2I(inhibitorsActive))

\* what the UI reads from the status file as it is
StatusRead == readStatus(statusFile)

\* C32: whenever the status file exists with a non-empty message, readStatus
\* reports data and the pid, active, debug and message of the file; when the
\* file is the publication of the current state these are getpid(),
\* inhibitorsActive, debugLoggingEnabled and the sanitized lastQbusError;
\* and when the file is missing readStatus reports no data, active false,
\* pid -1 and the message "Status file not found.".
C32_PublishReadRoundTrip ==
    /\ (statusFile.exists /\ statusFile.message # <<>>) =>
         /\ StatusRead.hasData
         /\ StatusRead.pid = statusFile.pid
         /\ StatusRead.active = (statusFile.active = 1)
         /\ StatusRead.debug = (statusFile.debug = 1)
         /\ StatusRead.message = statusFile.message
    /\ (statusFile = CurrentStatus /\ lastQbusError # <<>>) =>
         StatusRead = [hasData |-> TRUE,
                       active |-> inhibitorsActive,
                       debug |-> debugLoggingEnabled,
                       pid |-> ControllerPid,
                       message |-> sanitizeStatusMessage(lastQbusError)]
    /\ ~statusFile.exists =>
         StatusRead = [hasData |-> FALSE, active |-> FALSE, debug |-> FALSE,
                       pid |-> -1, message |-> <<"Status file not found.">>]

\* a failure message with a line break has been published and is read back
\* with the break replaced
C32_Witness ==
    /\ statusFile = CurrentStatus
    /\ \E i \in 1..Len(lastQbusError) : lastQbusError[i] = "\n"
    /\ StatusRead.message = sanitizeStatusMessage(lastQbusError)
    /\ StatusRead.message # lastQbusError
    /\ StatusRead.pid = ControllerPid /\ ~StatusRead.active

\* a step by which a signal of the UI takes effect in the controller: a
\* request flag is set, or the process is ended
ToggleEffect ==
    \/ acquireRequested = 0 /\ acquireRequested' = 1
    \/ releaseRequested = 0 /\ releaseRequested' = 1
    \/ pc # "killed" /\ pc' = "killed"

\* C33 (as claimed): a toggle that takes effect in the controller sets
\* releaseRequested when the status the UI last read says active and
\* acquireRequested otherwise, and does nothing else to the controller; the
\* release request is processed as a release (inhibitorsActive becomes
\* false) when the controller is ACTIVE and as the already-inactive no-op
\* otherwise; the acquire request starts acquireInhibitors when the
\* controller is INACTIVE and is the already-active no-op otherwise.
C33_ToggleFollowsStatusAndIsServed ==
    /\ [][ToggleEffect =>
            /\ pc' = pc
            /\ IF currentStatus.active
               THEN releaseRequested' = 1 /\ acquireRequested' = acquireRequested
               ELSE acquireRequested' = 1 /\ releaseRequested' = releaseRequested]_vars
    /\ [][(pc = "checkRelease" /\ releaseRequested = 1 /\ pc' # pc) =>
            IF inhibitorsActive
            THEN branch' = "release" /\ ~inhibitorsActive'
            ELSE /\ branch' = "releaseNoop" /\ ~inhibitorsActive'
                 /\ inhibitorHandles' = inhibitorHandles]_vars
    /\ [][(pc = "checkAcquire" /\ acquireRequested = 1 /\ pc' # pc) =>
            IF inhibitorsActive
            THEN /\ branch' = "acquireNoop" /\ inhibitorsActive'
                 /\ inhibitorHandles' = inhibitorHandles
            ELSE pc' = "acqScreen" /\ branch' = "acquire"]_vars

\* the calls to a bus a lease call makes: the Inhibit call alone when the
\* connection was cached, dbus_bus_get alone when it fails, both otherwise
LeaseBusCalls(cached, cachedAfter) ==
    IF cached \/ ~cachedAfter THEN 1 ELSE 2

\* C34: a lease call with the connection of its bus cached keeps it and
\* makes no dbus_bus_get call, and one without makes exactly one; after
\* every cleanupInhibitors both connections are absent; and in every state
\* a recorded screen-saver cookie implies a cached session connection.
C34_ConnectionsAreMemoized ==
    /\ [][(pc = "acqScreen" /\ pc' = "acqIdle") =>
            /\ inhibitorHandles.sessionConnection => inhibitorHandles'.sessionConnection
            /\ busCalls' = busCalls + LeaseBusCalls(inhibitorHandles.sessionConnection,
                                                    inhibitorHandles'.sessionConnection)
            /\ inhibitorHandles'.systemConnection = inhibitorHandles.systemConnection]_vars
    /\ [][((pc = "acqIdle" /\ pc' = "acqSleep") \/ (pc = "acqSleep" /\ pc' = "acqFinish")) =>
            /\ inhibitorHandles.systemConnection => inhibitorHandles'.systemConnection
            /\ busCalls' = busCalls + LeaseBusCalls(inhibitorHandles.systemConnection,
                                                    inhibitorHandles'.systemConnection)
            /\ inhibitorHandles'.sessionConnection = inhibitorHandles.sessionConnection]_vars
    /\ [][CleanupStep =>
            /\ ~inhibitorHandles'.sessionConnection
            /\ ~inhibitorHandles'.systemConnection]_vars
    /\ [](inhibitorHandles.screenSaverCookie # 0 => inhibitorHandles.sessionConnection)

\* an acquisition requested in the loop found the session connection of an
\* earlier, partly failed acquisition and made the Inhibit call alone
C34_Witness ==
    /\ pc = "acqIdle" /\ acqCaller = "loop"
    /\ busCalls = 1
    /\ inhibitorHandles.sessionConnection
    /\ "screen" \in granted

====
